---- MODULE Spec2Model ----
(***************************************************************************)
(* Replay telemetry aggregation of gameplay_summary:                       *)
(* DataExtractor.process_replay_data and the PostProcessor, modelled on    *)
(* data frames.  A frame is a record [cols, rows]: cols is the set of      *)
(* column names, rows a sequence of functions from column names to        *)
(* values.  A column that is absent from a row is that row's NaN.          *)
(***************************************************************************)
EXTENDS Integers, Sequences, FiniteSets, TLC

\* ------------------------------------------------------------------ bounds
\* cumulative counters of the varied slot take the values 0..MaxVal
MaxVal == 1
\* number of interval snapshots of the varied slot in a generated stream
MaxSnaps == 2

\* ------------------------------------------------------- program constants
MAX_PLAYERS == 10
BENCHMARK_PERCENTILE == 50
REQUIRED_FIELDS == {"interval", "DOTA_COMBATLOG_DAMAGE", "DOTA_COMBATLOG_TEAM_BUILDING_KILL"}
PER_MINUTE_COLUMNS == <<"gold", "xp">>
\* Settings.GROQ_DELAY, and tries / delay of the retry decorator of
\* GroqConnector._get_single_completion, in seconds
GROQ_DELAY == 8
GROQ_TRIES == 5
GROQ_RETRY_DELAY == 10
\* tries of the retry decorator of GCSConnector._download_folder
GCS_TRIES == 3
\* the clock when the connector is constructed: some time after the epoch
ClockStart == GROQ_DELAY + GROQ_RETRY_DELAY
\* block widths (minutes) the Settings object may be constructed with
MinuteIntervals == {5, 10}

Slots == 0..(MAX_PLAYERS - 1)
EmptyFrame == [cols |-> {}, rows |-> <<>>]

\* ------------------------------------------------------------- hero tables
\* heroes.json: hero id -> name / localized_name (slot s plays hero s + 1)
HeroRest == <<"axe", "bane", "clinkz", "doom", "ember", "furion", "gyro", "huskar", "invoker", "jakiro">>
heroes_info == [h \in 1..MAX_PLAYERS |->
    [name |-> <<"npc_dota_hero_", HeroRest[h]>>, localized_name |-> HeroRest[h]]]

\* unit names are pairs <<prefix, rest>>; str.startswith tests the prefix
StartsWithHero(name) == name[1] = "npc_dota_hero_"

BadguysFort == <<"npc_dota_", "badguys_fort">>
GoodguysFort == <<"npc_dota_", "goodguys_fort">>
BadguysTower == <<"npc_dota_", "badguys_tower1_mid">>
CreepName == <<"npc_dota_creep_", "goodguys_melee">>

\* lexicographic order of the unit names, used where pandas sorts group keys
NameRank(name) ==
    IF name[1] = "npc_dota_creep_" THEN 0
    ELSE IF \E h \in 1..MAX_PLAYERS : heroes_info[h].name = name
         THEN CHOOSE h \in 1..MAX_PLAYERS : heroes_info[h].name = name
    ELSE 100

\* benchmarks.json normalised by HeroBenchmarks.__init__: rates per minute,
\* held in hundredths so that the products below stay exact
Benchmark(h) == [gold_per_min |-> 40000 + 1000 * h, xp_per_min |-> 50060,
                 kills_per_min |-> 15, last_hits_per_min |-> 425,
                 hero_damage_per_min |-> 60030 + h]
benchmarks == [h \in 1..MAX_PLAYERS |-> [p \in {BENCHMARK_PERCENTILE} |-> Benchmark(h)]]

\* ------------------------------------------------------------ raw events
\* one interval snapshot of a slot
Snapshot(t, s, g, v, d) ==
    [type |-> "interval", time |-> t, slot |-> s, hero_id |-> s + 1,
     gold |-> g, xp |-> 50 * v + 10 * d, lh |-> v, denies |-> d,
     kills |-> v, deaths |-> d, assists |-> v, level |-> 1 + v,
     teamfight_participation |-> d]

DamageEv(t, att, tgt, ah, th, val) ==
    [type |-> "DOTA_COMBATLOG_DAMAGE", time |-> t, attackername |-> att,
     targetname |-> tgt, attackerhero |-> ah, targethero |-> th, value |-> val]

BuildingEv(t, tgt) ==
    [type |-> "DOTA_COMBATLOG_TEAM_BUILDING_KILL", time |-> t, targetname |-> tgt]

RECURSIVE Concat(_)
Concat(ss) == IF ss = <<>> THEN <<>> ELSE Head(ss) \o Concat(Tail(ss))

\* sequences over S of length at most n
RECURSIVE SeqsUpTo(_, _)
SeqsUpTo(S, n) ==
    IF n = 0 THEN {<<>>}
    ELSE LET shorter == SeqsUpTo(S, n - 1)
         IN shorter \cup {Append(q, x) : q \in {r \in shorter : Len(r) = n - 1}, x \in S}

\* the event row without field f (the field is absent from the JSON line)
DropField(e, f) == [x \in DOMAIN e \ {f} |-> e[x]]
DropFieldAll(ev, f) == [i \in 1..Len(ev) |-> DropField(ev[i], f)]
DropTypes(ev, types) == SelectSeq(ev, LAMBDA e : e.type \notin types)

\* ------------------------------------------------------- generated streams
FocusTimes == {0, 300, 360}
RegularTimes == <<0, 360>>
HeroA == heroes_info[1].name
HeroB == heroes_info[2].name

\* counter value and deaths of a snapshot of slot 0
ValuePairs == {<<v, 0>> : v \in 0..MaxVal} \cup {<<0, 2>>}
FocusSnaps == {Snapshot(t, 0, 100 * p[1], p[1], p[2]) : t \in FocusTimes, p \in ValuePairs}

\* the other nine slots report at every time of ts, slot by slot
RegularEvents(ts) ==
    Concat([i \in 1..Len(ts) |->
        [k \in 1..(MAX_PLAYERS - 1) |-> Snapshot(ts[i], k, 100 * (i - 1), i - 1, 0)]])

\* hero damage of slot 0's hero in both five-minute blocks, and a hit on an
\* illusion (target not flagged as a hero)
FocusDamage ==
    <<DamageEv(30, HeroA, HeroB, 1, 1, 90), DamageEv(310, HeroA, HeroB, 1, 1, 120),
      DamageEv(330, HeroA, HeroB, 1, 1, 60), DamageEv(340, HeroA, HeroB, 1, 0, 500)>>
BaseDamage == <<DamageEv(330, HeroA, HeroB, 1, 1, 120)>>
\* one event that passes the hero filter and four that fail one condition each
FilterCases ==
    <<DamageEv(400, HeroA, HeroB, 1, 1, 11), DamageEv(410, CreepName, HeroB, 1, 1, 13),
      DamageEv(420, HeroA, CreepName, 1, 1, 17), DamageEv(430, HeroA, HeroB, 0, 1, 19),
      DamageEv(440, HeroA, HeroB, 1, 0, 23)>>
DamageStreams ==
    { <<DamageEv(30, CreepName, HeroB, 0, 1, 40)>>,
      BaseDamage,
      FocusDamage,
      <<DamageEv(30, HeroB, HeroA, 1, 1, 42)>>,
      FilterCases }
        \cup {<<FilterCases[i]>> : i \in 1..Len(FilterCases)}

DefaultBuildings == <<BuildingEv(100, BadguysTower), BuildingEv(350, BadguysFort)>>

BuildingStreams ==
    { <<BuildingEv(350, BadguysFort)>>,
      <<BuildingEv(350, GoodguysFort)>>,
      DefaultBuildings,
      <<BuildingEv(350, BadguysFort), BuildingEv(100, BadguysTower)>>,
      <<BuildingEv(350, GoodguysFort), BuildingEv(100, BadguysFort)>>,
      <<BuildingEv(350, BadguysFort), BuildingEv(350, GoodguysFort)>>,
      <<BuildingEv(0, BadguysFort)>>,
      <<BuildingEv(-5, BadguysFort)>>,
      <<BuildingEv(100, GoodguysFort), BuildingEv(-5, BadguysFort)>> }

EventTypes == {"interval", "DOTA_COMBATLOG_DAMAGE", "DOTA_COMBATLOG_TEAM_BUILDING_KILL"}
MissingFields == {"none", "denies", "level", "teamfight_participation"}

\* streams that vary the snapshots of slot 0
IntervalStreams ==
    { [raw |-> f \o RegularEvents(RegularTimes) \o FocusDamage \o DefaultBuildings,
       MINUTE_INTERVAL |-> w] :
        f \in SeqsUpTo(FocusSnaps, MaxSnaps), w \in MinuteIntervals }

BaseFocus == <<Snapshot(0, 0, 0, 0, 0), Snapshot(360, 0, 100, 1, 0)>>

\* streams that vary the damage events
HeroDamageStreams ==
    { [raw |-> BaseFocus \o RegularEvents(RegularTimes) \o d \o DefaultBuildings,
       MINUTE_INTERVAL |-> w] : d \in DamageStreams, w \in MinuteIntervals }

\* streams that vary the event types, the fields and the building kills
ValidationStreams ==
    { [raw |-> DropFieldAll(DropTypes(BaseFocus \o RegularEvents(RegularTimes) \o BaseDamage \o b, dropped), m),
       MINUTE_INTERVAL |-> w] :
        b \in BuildingStreams, dropped \in (SUBSET EventTypes) \ {EventTypes},
        m \in MissingFields, w \in MinuteIntervals }

\* the toy match: slot 0 earns gold 0 -> 500 over minutes 0-5 and 500 -> 1300
\* over minutes 5-10, reported every c seconds
Cadences == {60, 100, 150, 300}
MinuteCadences == {60, 150}
ToyGold(t) == IF t <= 300 THEN (500 * t) \div 300 ELSE 500 + (800 * (t - 300)) \div 300
ToyFocus(c) == [i \in 1..(600 \div c + 1) |-> Snapshot((i - 1) * c, 0, ToyGold((i - 1) * c), 0, 0)]
ToyStreams ==
    { [raw |-> ToyFocus(c) \o RegularEvents(<<0, 600>>)
               \o <<DamageEv(30, CreepName, HeroB, 0, 1, 40)>> \o <<BuildingEv(590, BadguysFort)>>,
       MINUTE_INTERVAL |-> 5] : c \in Cadences }

\* streams that vary kills, assists and deaths of slot 0's terminal snapshot
KdaCounters == {<<k, a, d>> : k \in 0..2, a \in 0..1, d \in 0..3}
KdaStreams ==
    { [raw |-> <<Snapshot(0, 0, 0, 0, 0),
                 [Snapshot(360, 0, 100, c[1], c[3]) EXCEPT !.assists = c[2]]>>
               \o RegularEvents(RegularTimes) \o BaseDamage \o DefaultBuildings,
       MINUTE_INTERVAL |-> w] : c \in KdaCounters, w \in MinuteIntervals }

\* streams in which a numeric field is absent from some snapshots of slot 0
\* (the other slots carry it, so the column exists); no hero damage
NanFields == {"gold", "lh", "kills", "deaths", "level", "teamfight_participation"}
NanFocus(c, P) ==
    LET q == <<Snapshot(0, 0, 0, 0, 0), Snapshot(360, 0, 100, 1, 2)>>
    IN [i \in 1..2 |-> IF i \in P THEN DropField(q[i], c) ELSE q[i]]
NanStreams ==
    { [raw |-> NanFocus(c, P) \o RegularEvents(RegularTimes)
               \o <<DamageEv(30, CreepName, HeroB, 0, 1, 40)>> \o DefaultBuildings,
       MINUTE_INTERVAL |-> w] :
        c \in NanFields, P \in (SUBSET {1, 2}) \ {{}}, w \in MinuteIntervals }

\* streams with events before the match starts and after its last snapshot
PreMatchSnaps == {Snapshot(-240, 0, 50, 0, 0), Snapshot(-120, 3, 50, 0, 0)}
OutsideEvents ==
    {DamageEv(-300, HeroA, HeroB, 1, 1, 70), DamageEv(700, HeroA, HeroB, 1, 1, 80),
     BuildingEv(-400, BadguysTower)}
\* the elements of S that are in the sequence all, in the order of all
Chosen(all, S) == SelectSeq(all, LAMBDA e : e \in S)
PreMatchStreams ==
    { [raw |-> Chosen(<<Snapshot(-240, 0, 50, 0, 0), Snapshot(-120, 3, 50, 0, 0)>>, P)
               \o Chosen(<<BuildingEv(-400, BadguysTower), DamageEv(-300, HeroA, HeroB, 1, 1, 70)>>, O)
               \o BaseFocus \o RegularEvents(RegularTimes) \o BaseDamage
               \o Chosen(<<DamageEv(700, HeroA, HeroB, 1, 1, 80)>>, O) \o DefaultBuildings,
       MINUTE_INTERVAL |-> w] :
        P \in SUBSET PreMatchSnaps, O \in SUBSET OutsideEvents, w \in MinuteIntervals }

Scenarios ==
    IntervalStreams \cup HeroDamageStreams \cup ValidationStreams \cup ToyStreams
        \cup KdaStreams \cup PreMatchStreams

\* ---------------------------------------------------------------- state
VARIABLES
    raw,                    \* the events of the match file, in file order
    settings,               \* Settings the DataExtractor was constructed with
    pc,                     \* position inside process_replay_data
    err,                    \* exception raised, "none" while there is none
    err_fields,             \* the names the exception message carries
    trace,                  \* pipeline steps that have run, in order
    match_length,
    df,                     \* the preprocessed frame
    winning_team,
    processed_damage_df,
    final_stats,
    processed_interval_df,
    combined_df,
    post_process_data       \* the returned mapping slot -> Match Summary

\* the batch run of DatasetCreator.create_dataset around the extraction
VARIABLES
    batch_pc,               \* position inside create_dataset, "off" without a batch
    files,                  \* cloud folder: match id -> parsed replay
    matches,                \* matches table: match id -> flags
    dataset,                \* dataset table: the rows <<match id, slot>>
    match_ids,              \* the ids _generate_dataset was handed
    idx,                    \* position of the loop of _process_jsonlines
    slot_i,                 \* outputs of the current match inserted so far
    failed_matches,
    outcomes,               \* what each extraction of the run ended with
    other_pc                \* a concurrent call that uses the same Settings

batch_vars == <<batch_pc, files, matches, dataset, match_ids, idx, slot_i,
                failed_matches, outcomes, other_pc>>

\* GroqConnector: one connector, its clock and the call in progress
VARIABLES
    now,                    \* time.time(), in seconds
    last_request_time,      \* GroqConnector.last_request_time
    groq_pc,                \* position inside get_response
    tries,                  \* request attempts of the call in progress
    wake,                   \* end of the sleep in progress
    issued_at,              \* when the latest request was issued
    completed_at,           \* when the latest successful completion returned, -1 before
    failed_at,              \* when the latest attempt of the call failed, -1 before
    calls                   \* get_response calls started

groq_vars == <<now, last_request_time, groq_pc, tries, wake, issued_at, completed_at,
               failed_at, calls>>

\* GCSConnector.download of one folder to the local disk
VARIABLES
    gcs_pc,                 \* position inside download / _download_folder
    blobs,                  \* the blobs list_blobs returns, in order
    attempt,                \* attempts of _download_folder started
    blob_i,                 \* blobs of the attempt gone through
    disk,                   \* local files: name -> "complete" or "partial"
    downloaded_files,       \* the list of the attempt in progress
    touched                 \* local files an attempt of this download has written

gcs_vars == <<gcs_pc, blobs, attempt, blob_i, disk, downloaded_files, touched>>

ext_vars == <<groq_vars, gcs_vars>>

vars == <<raw, settings, pc, err, err_fields, trace, match_length, df, winning_team,
          processed_damage_df, final_stats, processed_interval_df, combined_df,
          post_process_data, batch_vars, ext_vars>>

\* GroqConnector.__init__ (line 30); the clock is past the epoch
GroqIdle ==
    /\ now = ClockStart
    /\ last_request_time = 0
    /\ groq_pc = "idle"
    /\ tries = 0
    /\ wake = 0
    /\ issued_at = -1
    /\ completed_at = -1
    /\ failed_at = -1
    /\ calls = 0

\* no download in progress, nothing on the local disk
GcsIdle ==
    /\ gcs_pc = "idle"
    /\ blobs = <<>>
    /\ attempt = 0
    /\ blob_i = 0
    /\ disk = <<>>
    /\ downloaded_files = <<>>
    /\ touched = {}

\* the state after construction, for a match drawn from the streams S
InitWith(S) ==
    /\ \E sc \in S :
          /\ raw = sc.raw
          /\ settings = [MINUTE_INTERVAL |-> sc.MINUTE_INTERVAL, MAX_PLAYERS |-> MAX_PLAYERS,
                         BENCHMARK_PERCENTILE |-> BENCHMARK_PERCENTILE,
                         PER_MINUTE_COLUMNS |-> PER_MINUTE_COLUMNS]
    /\ pc = "start"
    /\ err = "none"
    /\ err_fields = {}
    /\ trace = <<>>
    /\ match_length = 0
    /\ df = EmptyFrame
    /\ winning_team = "none"
    /\ processed_damage_df = EmptyFrame
    /\ final_stats = <<>>
    /\ processed_interval_df = EmptyFrame
    /\ combined_df = EmptyFrame
    /\ post_process_data = <<>>
    /\ batch_pc = "off"
    /\ files = <<>>
    /\ matches = <<>>
    /\ dataset = {}
    /\ match_ids = <<>>
    /\ idx = 0
    /\ slot_i = 0
    /\ failed_matches = <<>>
    /\ outcomes = <<>>
    /\ other_pc = "idle"
    /\ GroqIdle
    /\ GcsIdle

Init == InitWith(Scenarios)
\* matches with values that are absent on some events
InitNaN == InitWith(NanStreams)

\* ------------------------------------------------------- frame primitives
Cols(rows) == UNION {DOMAIN rows[i] : i \in 1..Len(rows)}
Frame(rows) == [cols |-> Cols(rows), rows |-> rows]
Has(r, c) == c \in DOMAIN r
TypesOf(frame) == {frame.rows[i].type : i \in 1..Len(frame.rows)}

\* the row with column c set to v
With(r, c, v) == [x \in DOMAIN r \cup {c} |-> IF x = c THEN v ELSE r[x]]

Raise(e, fields, step) ==
    /\ pc' = "failed"
    /\ err' = e
    /\ err_fields' = fields
    /\ trace' = Append(trace, step)
    /\ UNCHANGED <<batch_vars, ext_vars>>

Go(next, step) ==
    /\ pc' = next
    /\ trace' = Append(trace, step)
    /\ UNCHANGED <<err, err_fields, batch_vars, ext_vars>>

\* get_df_by_type: the rows of one type, all columns kept
get_df_by_type(frame, type) ==
    [cols |-> frame.cols, rows |-> SelectSeq(frame.rows, LAMBDA r : r.type = type)]

Max(S) == CHOOSE x \in S : \A y \in S : y <= x
Min(S) == CHOOSE x \in S : \A y \in S : x <= y
\* the values of column c over the rows that have it (pandas skips NaN)
ColVals(rows, c) == {rows[i][c] : i \in {j \in 1..Len(rows) : Has(rows[j], c)}}

\* variant: only the interval type is required
MissingTypesIntervalOnly(frame) == {"interval"} \ TypesOf(frame)

\* the required event types that no row of the frame has
MissingTypes(frame) == REQUIRED_FIELDS \ TypesOf(frame)

\* process_replay_data, lines 221-222: the required event types
Validate ==
    /\ pc = "start"
    /\ IF MissingTypes(Frame(raw)) # {}
         THEN Raise("CorruptedDataError", MissingTypes(Frame(raw)), "validate")
         ELSE Go("validated", "validate")
    /\ UNCHANGED <<raw, settings, match_length, df, winning_team, processed_damage_df,
                   final_stats, processed_interval_df, combined_df, post_process_data>>

\* variant: the span of the snapshots the pre-match filter keeps
get_match_length_filtered(frame) ==
    LET temp == SelectSeq(get_df_by_type(frame, "interval").rows,
                          LAMBDA r : Has(r, "time") /\ r.time >= 0)
    IN Max(ColVals(temp, "time")) - Min(ColVals(temp, "time"))

\* get_match_length: span of the interval events of the unfiltered frame
get_match_length(frame) ==
    LET temp == get_df_by_type(frame, "interval").rows
    IN Max(ColVals(temp, "time")) - Min(ColVals(temp, "time"))

\* sort_values(by=["time", "slot"]): a row goes before another when its time
\* is smaller, or the times are equal and its slot is smaller; NaN slots last
RowBefore(a, b) ==
    \/ a.time < b.time
    \/ /\ a.time = b.time
       /\ Has(a, "slot")
       /\ (~Has(b, "slot") \/ a.slot < b.slot)

\* variant: the frame is left in stream order
SortOmitted(rows) == rows

\* stable sort: every row is placed behind the rows that are not after it
RECURSIVE SortByTimeSlot(_)
SortByTimeSlot(rows) ==
    IF Len(rows) <= 1 THEN rows
    ELSE LET init == SortByTimeSlot(SubSeq(rows, 1, Len(rows) - 1))
             e == rows[Len(rows)]
             k == Cardinality({i \in 1..Len(init) : ~RowBefore(e, init[i])})
         IN SubSeq(init, 1, k) \o <<e>> \o SubSeq(init, k + 1, Len(init))

\* variant: the event at second 0 is dropped with the pre-match events
TimeFilterPositive(rows) == SelectSeq(rows, LAMBDA r : Has(r, "time") /\ r.time > 0)

\* rows kept by the pre-match filter of preprocess_data, line 112
TimeFilter(rows) == SelectSeq(rows, LAMBDA r : Has(r, "time") /\ r.time >= 0)

\* variant: the block of second t is the block of second t - 1
preprocess_data_shifted(frame, width) ==
    LET kept == TimeFilter(frame.rows)
        timed == [i \in 1..Len(kept) |->
                    With(With(kept[i], "minute", kept[i].time \div 60),
                         "block", (kept[i].time - 1) \div (60 * width))]
    IN [cols |-> frame.cols \cup {"minute", "block"}, rows |-> SortByTimeSlot(timed)]

\* preprocess_data, lines 112-116
preprocess_data(frame, width) ==
    LET kept == TimeFilter(frame.rows)
        timed == [i \in 1..Len(kept) |->
                    With(With(kept[i], "minute", kept[i].time \div 60),
                         "block", (kept[i].time \div 60) \div width)]
    IN [cols |-> frame.cols \cup {"minute", "block"}, rows |-> SortByTimeSlot(timed)]

\* the column preprocess_data fails on, if any
PreprocessMissing(frame) ==
    IF "time" \notin frame.cols THEN {"time"}
    ELSE IF "slot" \notin frame.cols THEN {"slot"}
    ELSE {}

\* variant: the filter and the derived columns applied to the caller's frame
RawPreprocessedInPlace(stream, width) == preprocess_data(Frame(stream), width).rows

\* the caller's events after preprocess_data: line 112 binds df to a new
\* frame (the selection, then reset_index), and lines 113-115 work on it
RawAfterPreprocess(stream, width) == stream

\* process_replay_data, lines 224-225
Preprocess ==
    /\ pc = "validated"
    /\ match_length' = get_match_length(Frame(raw))
    /\ raw' = RawAfterPreprocess(raw, settings.MINUTE_INTERVAL)
    /\ IF PreprocessMissing(Frame(raw)) # {}
         THEN /\ Raise("KeyError", PreprocessMissing(Frame(raw)), "preprocess_data")
              /\ UNCHANGED df
         ELSE /\ df' = preprocess_data(Frame(raw), settings.MINUTE_INTERVAL)
              /\ Go("preprocessed", "preprocess_data")
    /\ UNCHANGED <<settings, winning_team, processed_damage_df,
                   final_stats, processed_interval_df, combined_df, post_process_data>>

\* variant: the first building kill decides (iloc[0])
extract_winning_team_first(frame) ==
    LET building_destroyed_df == get_df_by_type(frame, "DOTA_COMBATLOG_TEAM_BUILDING_KILL").rows
        first_row == building_destroyed_df[1]
    IN IF Has(first_row, "targetname") /\ first_row.targetname = BadguysFort
         THEN "radiant" ELSE "dire"

\* extract_winning_team, lines 20-25, on a non-empty building sub-frame
extract_winning_team(frame) ==
    LET building_destroyed_df == get_df_by_type(frame, "DOTA_COMBATLOG_TEAM_BUILDING_KILL").rows
        last_row == building_destroyed_df[Len(building_destroyed_df)]
    IN IF Has(last_row, "targetname") /\ last_row.targetname = BadguysFort
         THEN "radiant" ELSE "dire"

\* process_replay_data, line 226; iloc[-1] of an empty frame is an IndexError
ExtractWinner ==
    /\ pc = "preprocessed"
    /\ IF get_df_by_type(df, "DOTA_COMBATLOG_TEAM_BUILDING_KILL").rows = <<>>
         THEN /\ Raise("IndexError", {}, "extract_winning_team")
              /\ UNCHANGED winning_team
         ELSE /\ winning_team' = extract_winning_team(df)
              /\ Go("winner", "extract_winning_team")
    /\ UNCHANGED <<raw, settings, match_length, df, processed_damage_df,
                   final_stats, processed_interval_df, combined_df, post_process_data>>

RECURSIVE SumSeq(_)
SumSeq(q) == IF q = <<>> THEN 0 ELSE Head(q) + SumSeq(Tail(q))

\* the values of column c down the rows that have it, in row order
ColSeq(rows, c) ==
    LET having == SelectSeq(rows, LAMBDA r : Has(r, c))
    IN [i \in 1..Len(having) |-> having[i][c]]

RECURSIVE SortInts(_)
SortInts(S) == IF S = {} THEN <<>> ELSE <<Min(S)>> \o SortInts(S \ {Min(S)})

\* variant: the name prefix or the hero flag is enough
IsHeroDamageEither(r) ==
    /\ (StartsWithHero(r.attackername) \/ r.attackerhero = 1)
    /\ (StartsWithHero(r.targetname) \/ r.targethero = 1)

\* a damage row counts when attacker and target carry the hero prefix and
\* both hero flags are set (aggregate_damage_data, lines 130-134)
IsHeroDamage(r) ==
    /\ StartsWithHero(r.attackername)
    /\ StartsWithHero(r.targetname)
    /\ r.attackerhero = 1
    /\ r.targethero = 1

\* groupby(["block", "attackername"]) gives the groups in key order
DamageKeyRank(block, name) == block * 1000 + NameRank(name)

\* aggregate_damage_data, lines 128-143
aggregate_damage_data(frame) ==
    LET rows == SelectSeq(frame.rows, IsHeroDamage)
        ranks == SortInts({DamageKeyRank(rows[i].block, rows[i].attackername) : i \in 1..Len(rows)})
        group(k) == SelectSeq(rows, LAMBDA r : DamageKeyRank(r.block, r.attackername) = k)
    IN [cols |-> {"block", "attackername", "damage_dealt_to_heroes", "minute"},
        rows |-> [i \in 1..Len(ranks) |->
            LET g == group(ranks[i])
            IN [block |-> g[1].block, attackername |-> g[1].attackername,
                damage_dealt_to_heroes |-> SumSeq(ColSeq(g, "value")),
                minute |-> g[Len(g)].minute]]]

\* process_replay_data, lines 227-232
AggregateDamage ==
    /\ pc = "winner"
    /\ processed_damage_df' = aggregate_damage_data(get_df_by_type(df, "DOTA_COMBATLOG_DAMAGE"))
    /\ Go("damage", "aggregate_damage_data")
    /\ UNCHANGED <<raw, settings, match_length, df, winning_team,
                   final_stats, processed_interval_df, combined_df, post_process_data>>

\* round(x, 1) of x = n / d >= 0, in tenths, ties to the even tenth
RoundTenths(n, d) ==
    LET q == (10 * n) \div d
        r == (10 * n) % d
    IN IF 2 * r < d THEN q
       ELSE IF 2 * r > d THEN q + 1
       ELSE IF q % 2 = 0 THEN q ELSE q + 1

\* the rows compute_final_stats reads: the snapshots of the last second
TerminalRows(interval_rows, slot) ==
    LET last_second == Max(ColVals(interval_rows, "time"))
    IN SelectSeq(interval_rows, LAMBDA r : r.time = last_second /\ Has(r, "slot") /\ r.slot = slot)

\* columns compute_final_stats reads from the terminal row
FinalStatsColumns == {"hero_id", "kills", "assists", "deaths", "gold", "lh", "denies", "xp"}

\* the totals of one slot, lines 82-97; a total that is NaN has no entry
SlotFinalStats(interval_rows, damage_rows, slot) ==
    LET t == TerminalRows(interval_rows, slot)
        row == t[Len(t)]
        hero_name == heroes_info[row.hero_id].name
        slot_combat == SelectSeq(damage_rows, LAMBDA r : r.attackername = hero_name)
        present == {c \in {"gold", "lh", "denies", "xp", "kills", "deaths", "assists"} : Has(row, c)}
        label == [gold |-> "Total gold", lh |-> "Total last hits", denies |-> "Total denies",
                  xp |-> "Total xp", kills |-> "Total kills", deaths |-> "Total deaths",
                  assists |-> "Total assists"]
        kda_ok == {"kills", "assists", "deaths"} \subseteq present
        keys == {label[c] : c \in present} \cup {"Total damage"}
                  \cup (IF kda_ok THEN {"Total KDA"} ELSE {})
    IN [k \in keys |->
          IF k = "Total damage" THEN SumSeq(ColSeq(slot_combat, "damage_dealt_to_heroes"))
          ELSE IF k = "Total KDA"
            THEN RoundTenths(row.kills + row.assists, Max({row.deaths, 1}))
          ELSE row[CHOOSE c \in present : label[c] = k]]

\* the exception compute_final_stats ends with, slot by slot: no snapshot of
\* the slot at the last second (iloc[-1]), or a column that does not exist
FinalStatsError(frame) ==
    LET terminal(s) == TerminalRows(frame.rows, s)
        bad == {s \in Slots : \/ frame.rows = <<>>
                              \/ terminal(s) = <<>>
                              \/ ~(FinalStatsColumns \subseteq frame.cols)
                              \/ ~Has(terminal(s)[Len(terminal(s))], "hero_id")}
        first == Min(bad)
    IN IF bad = {} THEN "none"
       ELSE IF frame.rows = <<>> \/ terminal(first) = <<>> THEN "IndexError"
       ELSE IF "hero_id" \notin frame.cols THEN "KeyError"
       ELSE IF ~Has(terminal(first)[Len(terminal(first))], "hero_id") THEN "ValueError"
       ELSE "KeyError"

compute_final_stats(interval_frame, damage_frame) ==
    [s \in Slots |-> SlotFinalStats(interval_frame.rows, damage_frame.rows, s)]

\* process_replay_data, lines 234-236
ComputeFinalStats ==
    /\ pc = "damage"
    /\ LET interval_df == get_df_by_type(df, "interval")
       IN IF FinalStatsError(interval_df) # "none"
            THEN /\ Raise(FinalStatsError(interval_df),
                          IF FinalStatsError(interval_df) = "KeyError"
                            THEN FinalStatsColumns \ interval_df.cols ELSE {},
                          "compute_final_stats")
                 /\ UNCHANGED final_stats
            ELSE /\ final_stats' = compute_final_stats(interval_df, processed_damage_df)
                 /\ Go("final_stats", "compute_final_stats")
    /\ UNCHANGED <<raw, settings, match_length, df, winning_team, processed_damage_df,
                   processed_interval_df, combined_df, post_process_data>>

\* ---------------------------------------------------- interval aggregator
IntervalRequiredFields ==
    {"time", "minute", "level", "hero_id", "teamfight_participation", "kills", "deaths", "assists"}
        \cup {settings.PER_MINUTE_COLUMNS[i] : i \in 1..Len(settings.PER_MINUTE_COLUMNS)}
        \cup {"denies", "lh", "slot"}

\* variant: the counter's maximum, without the value the block started from
WindowGainFromZero(vals) == Max({vals[i] : i \in 1..Len(vals)})

\* variant: last - first of the counter
WindowGainLastFirst(vals) == vals[Len(vals)] - vals[1]

\* max - min of a counter over the snapshots of one group (lines 179-183)
WindowGain(vals) ==
    LET S == {vals[i] : i \in 1..Len(vals)} IN Max(S) - Min(S)

\* NamedAgg "first" / "last": the first / last value that is not NaN
AggFirst(g, c) == ColSeq(g, c)[1]
AggLast(g, c) == ColSeq(g, c)[Len(ColSeq(g, c))]

\* variant: kda from the last snapshot of the group
GroupKdaLast(g) ==
    <<AggLast(g, "kills") + AggLast(g, "assists"), Max({AggLast(g, "deaths"), 1})>>

\* kda of one group as the fraction <<numerator, divisor>> (lines 184-185)
GroupKda(g) ==
    <<Max(ColVals(g, "kills")) + Max(ColVals(g, "assists")),
      Max({Max(ColVals(g, "deaths")), 1})>>

IntervalKeyRank(block, slot) == block * 100 + slot

\* the columns of cols that are NaN on every row of the group
AllNaN(g, cols) == {c \in cols : ColVals(g, c) = {}}

\* one row of first_group_df (lines 162-174); last and max of a column that
\* is NaN on every row of the group are NaN, its sum is 0
FirstGroupRow(g) ==
    LET nan == AllNaN(g, {"level", "hero_id", "kills", "deaths", "assists"})
        last(c) == IF c \in nan THEN 0 ELSE AggLast(g, c)
        max(c) == IF c \in nan THEN 0 ELSE Max(ColVals(g, c))
        full == [block |-> g[1].block, slot |-> g[1].slot,
                 time |-> AggLast(g, "time"), block_start |-> AggFirst(g, "time"),
                 minute |-> AggLast(g, "minute"),
                 level |-> last("level"),
                 hero_id |-> last("hero_id"),
                 teamfight_participation |-> SumSeq(ColSeq(g, "teamfight_participation")),
                 kills |-> max("kills"), deaths |-> max("deaths"),
                 assists |-> max("assists")]
    IN [c \in DOMAIN full \ nan |-> full[c]]

\* one row of second_group_df (lines 177-189); max - min of a column that is
\* NaN on every row is NaN, and so is kda when kills, assists or deaths are
\* (max(nan, 1) is nan)
SecondGroupRow(g) ==
    LET nan == AllNaN(g, {"gold", "xp", "denies", "lh"})
                 \cup (IF AllNaN(g, {"kills", "assists", "deaths"}) # {} THEN {"kda"} ELSE {})
        gain(c) == IF c \in nan THEN 0 ELSE WindowGain(ColSeq(g, c))
        full == [gold |-> gain("gold"), xp |-> gain("xp"),
                 denies |-> gain("denies"), lh |-> gain("lh"),
                 kda |-> IF "kda" \in nan THEN <<0, 1>> ELSE GroupKda(g),
                 minute |-> Max(ColVals(g, "minute")), slot |-> Max(ColVals(g, "slot"))]
    IN [c \in DOMAIN full \ nan |-> full[c]]

\* the fields of both rows; the key columns agree
Combine(l, r) == [x \in DOMAIN l \cup DOMAIN r |-> IF x \in DOMAIN l THEN l[x] ELSE r[x]]

\* the rows agree on the key columns; on is the sequence of the pairs
\* <<left column, right column>>
KeysMatch(l, r, on) == \A k \in 1..Len(on) : l[on[k][1]] = r[on[k][2]]

\* merge(how="left"): every left row once per matching right row, and once
\* with the right columns NaN when nothing matches
LeftMerge(left, right, on) ==
    Concat([i \in 1..Len(left) |->
        LET m == SelectSeq(right, LAMBDA r : KeysMatch(left[i], r, on))
        IN IF m = <<>> THEN <<left[i]>>
           ELSE [j \in 1..Len(m) |-> Combine(left[i], m[j])]])

\* add_hero_name, lines 119-126
add_hero_name(r) ==
    With(With(r, "hero_name", heroes_info[r.hero_id].name),
         "localized_hero_name", heroes_info[r.hero_id].localized_name)

\* fillna(0), line 199
FillNa(r, cols) ==
    [c \in cols |-> IF Has(r, c) THEN r[c] ELSE IF c = "kda" THEN <<0, 1>> ELSE 0]

\* aggregate_interval_data, lines 158-200, on a frame that has the fields
aggregate_interval_data(frame) ==
    LET rows == SelectSeq(frame.rows, LAMBDA r : Has(r, "block") /\ Has(r, "slot"))
        ranks == SortInts({IntervalKeyRank(rows[i].block, rows[i].slot) : i \in 1..Len(rows)})
        group(k) == SelectSeq(rows, LAMBDA r : IntervalKeyRank(r.block, r.slot) = k)
        first_group_df == [i \in 1..Len(ranks) |-> FirstGroupRow(group(ranks[i]))]
        second_group_df == [i \in 1..Len(ranks) |-> SecondGroupRow(group(ranks[i]))]
        full_interval_df == LeftMerge(first_group_df, second_group_df,
                                <<<<"minute", "minute">>, <<"slot", "slot">>>>)
        cols == {"block", "slot", "time", "block_start", "minute", "level", "hero_id",
                 "teamfight_participation", "kills", "deaths", "assists", "gold", "xp",
                 "denies", "lh", "kda", "hero_name", "localized_hero_name"}
    IN [cols |-> cols,
        rows |-> [i \in 1..Len(full_interval_df) |->
                    FillNa(add_hero_name(full_interval_df[i]), cols)]]

\* some (block, slot) group has no hero id at all: int(x) in add_hero_name
\* (lines 120-122) then gets NaN
HeroIdNaN(frame) ==
    \E i \in 1..Len(frame.rows) :
        /\ Has(frame.rows[i], "block") /\ Has(frame.rows[i], "slot")
        /\ \A j \in 1..Len(frame.rows) :
              (/\ Has(frame.rows[j], "block") /\ Has(frame.rows[j], "slot")
               /\ frame.rows[j].block = frame.rows[i].block
               /\ frame.rows[j].slot = frame.rows[i].slot) => ~Has(frame.rows[j], "hero_id")

\* process_replay_data, lines 238-240, with the field check of lines 152-156
AggregateInterval ==
    /\ pc = "final_stats"
    /\ LET interval_df == get_df_by_type(df, "interval")
       IN IF ~(IntervalRequiredFields \subseteq interval_df.cols)
            THEN /\ Raise("CorruptedDataError", IntervalRequiredFields \ interval_df.cols,
                          "aggregate_interval_data")
                 /\ UNCHANGED processed_interval_df
          ELSE IF HeroIdNaN(interval_df)
            THEN /\ Raise("ValueError", {}, "aggregate_interval_data")
                 /\ UNCHANGED processed_interval_df
            ELSE /\ processed_interval_df' = aggregate_interval_data(interval_df)
                 /\ Go("interval", "aggregate_interval_data")
    /\ UNCHANGED <<raw, settings, match_length, df, winning_team, processed_damage_df,
                   final_stats, combined_df, post_process_data>>

\* ------------------------------------------------- join and normalisation
NaN == [k |-> "nan"]
Inf == [k |-> "inf"]
Num(n, d) == [k |-> "num", n |-> n, d |-> d]

\* variant: the rate over the nominal block width
PerMinuteNominal(r, c, block_length) ==
    IF ~Has(r, c) THEN NaN ELSE Num(r[c] * 60, settings.MINUTE_INTERVAL * 60)

\* x / block_length * 60 in floating point: a zero length gives NaN for a
\* zero (or NaN) x and inf for a positive x; no exception is raised
PerMinute(r, c, block_length) ==
    IF ~Has(r, c) THEN NaN
    ELSE IF block_length = 0 THEN (IF r[c] = 0 THEN NaN ELSE Inf)
    ELSE Num(r[c] * 60, block_length)

\* line 205: the rate columns and dpm, as a new list
per_minute_columns(st) == st.PER_MINUTE_COLUMNS \o <<"dpm">>

\* variant: dpm appended to the list of the Settings object itself
SettingsAppendedInPlace(st) == [st EXCEPT !.PER_MINUTE_COLUMNS = @ \o <<"dpm">>]

\* the Settings object after normalize_per_minute_data: line 205 builds its
\* list with +, so the list the object holds is not changed
SettingsAfterNormalize(st) == st

\* normalize_per_minute_data, lines 202-209, on one row
NormalizeRow(r) ==
    LET block_length == r.time - r.block_start
        columns == {per_minute_columns(settings)[i] : i \in 1..Len(per_minute_columns(settings))}
        renamed == [c \in (DOMAIN r \ {"damage_dealt_to_heroes"})
                          \cup (IF Has(r, "damage_dealt_to_heroes") THEN {"dpm"} ELSE {}) |->
                      IF c = "dpm" THEN r.damage_dealt_to_heroes ELSE r[c]]
    IN [c \in DOMAIN renamed \cup columns |->
          IF c \in columns THEN PerMinute(renamed, c, block_length)
          ELSE renamed[c]]

\* variant: merge(how="inner") drops the rows nothing matches
JoinDamageInner(interval_rows, damage_rows) ==
    LeftMerge(SelectSeq(interval_rows, LAMBDA l : \E i \in 1..Len(damage_rows) :
                  l.block = damage_rows[i].block /\ l.hero_name = damage_rows[i].attackername),
              damage_rows,
              <<<<"block", "block">>, <<"hero_name", "attackername">>>>)

\* pd.merge(..., how="left") of lines 242-248, on (block, hero name)
JoinDamage(interval_rows, damage_rows) ==
    LeftMerge(interval_rows, damage_rows,
              <<<<"block", "block">>, <<"hero_name", "attackername">>>>)

\* process_replay_data, lines 242-249
JoinNormalize ==
    /\ pc = "interval"
    /\ LET joined == JoinDamage(processed_interval_df.rows, processed_damage_df.rows)
       IN combined_df' = [cols |-> (processed_interval_df.cols \cup {"attackername", "dpm"}),
                          rows |-> [i \in 1..Len(joined) |-> NormalizeRow(joined[i])]]
    /\ settings' = SettingsAfterNormalize(settings)
    /\ Go("combined", "normalize_per_minute_data")
    /\ UNCHANGED <<raw, match_length, df, winning_team, processed_damage_df,
                   final_stats, processed_interval_df, post_process_data>>

\* ---------------------------------------------------------- post-processing
\* split_data_by_player, lines 47-50: the rows of one slot
SlotRows(frame, slot) == SelectSeq(frame.rows, LAMBDA r : r.slot = slot)

\* variant: slot 5 counted with the first team
get_player_team_le(slot) == IF slot <= 5 THEN "radiant" ELSE "dire"

\* get_player_team, post_processing.py lines 72-75
get_player_team(slot) == IF slot < 5 THEN "radiant" ELSE "dire"

\* astype(int) of a finite float: truncation
IntCast(f) == IF f.k = "num" THEN f.n \div f.d ELSE 0

\* sort_values(by="minute")
SortByMinute(rows) ==
    LET minutes == SortInts({rows[i].minute : i \in 1..Len(rows)})
    IN Concat([i \in 1..Len(minutes) |-> SelectSeq(rows, LAMBDA r : r.minute = minutes[i])])

\* one entry of the per-block stats, post_processing.py lines 95-113
StatsEntry(r) ==
    [minute |-> r.minute,
     gold_per_minute |-> IntCast(r.gold),
     last_hits |-> r.lh,
     denies |-> r.denies,
     xp_per_minute |-> IntCast(r.xp),
     kills |-> r.kills,
     deaths |-> r.deaths,
     assists |-> r.assists,
     KDA |-> RoundTenths(r.kda[1], r.kda[2]),
     damage_per_minute |-> IntCast(r.dpm),
     teamfight_seconds |-> r.teamfight_participation]

\* _postprocess_player_data
postprocess_player_data(rows) ==
    LET sorted == SortByMinute(rows)
    IN [i \in 1..Len(sorted) |-> StatsEntry(sorted[i])]

\* astype(int) refuses a column that holds inf
HasInf(rows) == \E i \in 1..Len(rows) : \E c \in {"gold", "xp", "dpm"} : rows[i][c] = Inf

FinalStatsKeys ==
    {"Total gold", "Total last hits", "Total denies", "Total xp", "Total kills",
     "Total deaths", "Total assists", "Total KDA", "Total damage"}

\* _postprocess_final_stats, lines 116-121: int() of every total; Total KDA
\* arrives in tenths
postprocess_final_stats(fs) ==
    [k \in DOMAIN fs |-> IF k = "Total KDA" THEN fs[k] \div 10 ELSE fs[k]]

\* round() of n / d >= 0 to an integer, ties to even
RoundInt(n, d) ==
    LET q == n \div d
        r == n % d
    IN IF 2 * r < d THEN q
       ELSE IF 2 * r > d THEN q + 1
       ELSE IF q % 2 = 0 THEN q ELSE q + 1

\* variant: the damage total truncated like gold and xp
postprocess_benchmarks_int_damage(hero_id, length) ==
    LET benchmark == benchmarks[hero_id][settings.BENCHMARK_PERCENTILE]
    IN [Total_gold |-> (benchmark.gold_per_min * length) \div 6000,
        Total_xp |-> (benchmark.xp_per_min * length) \div 6000,
        Total_kills |-> RoundInt(benchmark.kills_per_min * length, 6000),
        Total_last_hits |-> RoundInt(benchmark.last_hits_per_min * length, 6000),
        Total_damage |-> (benchmark.hero_damage_per_min * length) \div 6000]

\* _postprocess_benchmarks, lines 17-27; the rates are in hundredths per
\* minute and the length in seconds
postprocess_benchmarks(hero_id, length) ==
    LET benchmark == benchmarks[hero_id][settings.BENCHMARK_PERCENTILE]
    IN [Total_gold |-> (benchmark.gold_per_min * length) \div 6000,
        Total_xp |-> (benchmark.xp_per_min * length) \div 6000,
        Total_kills |-> RoundInt(benchmark.kills_per_min * length, 6000),
        Total_last_hits |-> RoundInt(benchmark.last_hits_per_min * length, 6000),
        Total_damage |-> RoundInt(benchmark.hero_damage_per_min * length, 6000)]

\* postprocess_data, lines 44-64, for one slot
postprocess_data(rows, winner, fs, length, slot) ==
    [team |-> get_player_team(slot),
     win |-> (get_player_team(slot) = winner),
     hero |-> rows[1].localized_hero_name,
     interval |-> settings.MINUTE_INTERVAL,
     stats |-> postprocess_player_data(rows),
     final_stats |-> postprocess_final_stats(fs[slot]),
     benchmarks |-> postprocess_benchmarks(rows[1].hero_id, length)]

\* the exception postprocess_data ends with for one slot, in the order the
\* statements run
SlotPostError(slot) ==
    LET rows == SlotRows(combined_df, slot)
    IN IF rows = <<>> THEN "IndexError"
       ELSE IF HasInf(rows) THEN "IntCastingNaNError"
       ELSE IF DOMAIN final_stats[slot] # FinalStatsKeys THEN "ValueError"
       ELSE IF rows[1].hero_id \notin DOMAIN benchmarks THEN "KeyError"
       ELSE "none"

\* process_replay_data, lines 251-258
PostProcess ==
    /\ pc = "combined"
    /\ LET bad == {s \in 0..(settings.MAX_PLAYERS - 1) : SlotPostError(s) # "none"}
       IN IF bad # {}
            THEN /\ Raise(SlotPostError(Min(bad)), {}, "postprocess_data")
                 /\ UNCHANGED post_process_data
            ELSE /\ post_process_data' =
                       [s \in 0..(settings.MAX_PLAYERS - 1) |->
                           postprocess_data(SlotRows(combined_df, s), winning_team,
                                            final_stats, match_length, s)]
                 /\ Go("done", "postprocess_data")
    /\ UNCHANGED <<raw, settings, match_length, df, winning_team, processed_damage_df,
                   final_stats, processed_interval_df, combined_df>>

Next == Validate \/ Preprocess \/ ExtractWinner \/ AggregateDamage \/ ComputeFinalStats
            \/ AggregateInterval \/ JoinNormalize \/ PostProcess

Spec == Init /\ [][Next]_vars
SpecNaN == InitNaN /\ [][Next]_vars

\* ------------------------------------------------------------ batch run
\* number of parsed replays in the cloud folder
MaxMatches == 2
MatchIds == 1..MaxMatches

\* a replay that is processed to the end, one without building kills, one
\* without the level field and one in which slot 0 never reports
GoodStream ==
    BaseFocus \o RegularEvents(RegularTimes)
        \o <<DamageEv(30, CreepName, HeroB, 0, 1, 40)>> \o DefaultBuildings
BatchFiles ==
    { GoodStream,
      DropTypes(GoodStream, {"DOTA_COMBATLOG_TEAM_BUILDING_KILL"}),
      DropFieldAll(GoodStream, "level"),
      RegularEvents(RegularTimes) \o <<DamageEv(30, CreepName, HeroB, 0, 1, 40)>>
          \o DefaultBuildings }

\* what earlier runs left in the database: the rows of match 1 in the
\* dataset table and the matches marked is_in_dataset
Leftovers ==
    { [dataset |-> {}, marked |-> {}],
      [dataset |-> {<<1, sl>> : sl \in Slots}, marked |-> {}],
      [dataset |-> {<<1, sl>> : sl \in 0..2}, marked |-> {}],
      [dataset |-> {}, marked |-> {1}],
      [dataset |-> {<<1, sl>> : sl \in Slots}, marked |-> {1}],
      [dataset |-> {<<1, sl>> : sl \in 0..2}, marked |-> {1}],
      [dataset |-> {<<1, sl>> : sl \in 0..2} \cup {<<2, sl>> : sl \in Slots}, marked |-> {1}],
      [dataset |-> {<<0, sl>> : sl \in Slots} \cup {<<1, sl>> : sl \in 0..8}, marked |-> {2}] }

\* the locals of one call of process_replay_data
call_vars == <<raw, pc, err, err_fields, trace, match_length, df, winning_team,
               processed_damage_df, final_stats, processed_interval_df, combined_df,
               post_process_data>>

\* DatasetCreator.__init__ and the entry of create_dataset
InitBatch ==
    /\ \E w \in MinuteIntervals :
          settings = [MINUTE_INTERVAL |-> w, MAX_PLAYERS |-> MAX_PLAYERS,
                      BENCHMARK_PERCENTILE |-> BENCHMARK_PERCENTILE,
                      PER_MINUTE_COLUMNS |-> PER_MINUTE_COLUMNS]
    /\ files \in [MatchIds -> BatchFiles]
    /\ \E l \in Leftovers :
          /\ dataset = l.dataset
          /\ matches = [m \in MatchIds |->
                          [is_in_dataset |-> IF m \in l.marked THEN 1 ELSE 0,
                           is_parsed_jsonlines |-> 0]]
    /\ batch_pc = "repair"
    /\ match_ids = <<>>
    /\ idx = 0
    /\ slot_i = 0
    /\ failed_matches = <<>>
    /\ outcomes = <<>>
    /\ other_pc = "idle"
    /\ GroqIdle
    /\ GcsIdle
    /\ raw = <<>>
    /\ pc = "idle"
    /\ err = "none"
    /\ err_fields = {}
    /\ trace = <<>>
    /\ match_length = 0
    /\ df = EmptyFrame
    /\ winning_team = "none"
    /\ processed_damage_df = EmptyFrame
    /\ final_stats = <<>>
    /\ processed_interval_df = EmptyFrame
    /\ combined_df = EmptyFrame
    /\ post_process_data = <<>>

\* SQLLiteDB.set_match_in_dataset: UPDATE ... WHERE match_id = m
set_match_in_dataset(table, m, value) ==
    [x \in DOMAIN table |-> IF x = m THEN [table[x] EXCEPT !.is_in_dataset = value]
                                     ELSE table[x]]

RECURSIVE SetAll(_, _, _)
\* set_match_in_dataset for every match of the set ms
SetAll(table, ms, value) ==
    IF ms = {} THEN table
    ELSE LET m == CHOOSE x \in ms : TRUE
         IN SetAll(set_match_in_dataset(table, m, value), ms \ {m}, value)

\* get_all_dataset_matches / get_clean_dataset_matches / get_matches_marked_in_dataset
get_all_dataset_matches(rows) == {r[1] : r \in rows}
get_clean_dataset_matches(rows) ==
    {m \in get_all_dataset_matches(rows) : Cardinality({r \in rows : r[1] = m}) = 10}
get_matches_marked_in_dataset(table) == {m \in DOMAIN table : table[m].is_in_dataset = 1}

\* variant: without the last pass over the marked matches (lines 92-97)
repair_data_no_unmark(rows, table) ==
    LET dataset_matches == get_all_dataset_matches(rows)
        clean_dataset_matches == get_clean_dataset_matches(rows)
        corrupted_matches == dataset_matches \ clean_dataset_matches
        rows1 == {r \in rows : r[1] \notin corrupted_matches}
        table1 == SetAll(table, corrupted_matches, 0)
        table2 == SetAll(table1, clean_dataset_matches, 1)
    IN [dataset |-> rows1, matches |-> table2]

\* repair_data, dataset_creator.py lines 81-97
repair_data(rows, table) ==
    LET dataset_matches == get_all_dataset_matches(rows)
        clean_dataset_matches == get_clean_dataset_matches(rows)
        corrupted_matches == dataset_matches \ clean_dataset_matches
        rows1 == {r \in rows : r[1] \notin corrupted_matches}
        table1 == SetAll(table, corrupted_matches, 0)
        table2 == SetAll(table1, clean_dataset_matches, 1)
        marked_matches == get_matches_marked_in_dataset(table2)
        table3 == SetAll(table2, marked_matches \ clean_dataset_matches, 0)
    IN [dataset |-> rows1, matches |-> table3]

\* is_match_in_dataset: false for a match the table does not have
is_match_in_dataset(table, m) == m \in DOMAIN table /\ table[m].is_in_dataset # 0

\* _get_matches_converted_to_jsonlines, lines 33-43
get_matches_converted_to_jsonlines(folder, table) ==
    SortInts({m \in DOMAIN folder : ~is_match_in_dataset(table, m)})

\* set_matches_parsed, sqllite_client.py lines 44-48
set_matches_parsed(table, ids) ==
    [x \in DOMAIN table |->
        IF \E i \in 1..Len(ids) : ids[i] = x
          THEN [table[x] EXCEPT !.is_parsed_jsonlines = 1] ELSE table[x]]

\* variant: no except clause
CaughtNothing(e) == FALSE

\* the except clause of _process_jsonlines, line 63
Caught(e) == e = "CorruptedDataError"

\* what the extraction of the current match ended with
Outcome == [match_id |-> match_ids[idx], err |-> err, summary |-> post_process_data]

\* create_dataset, line 113
RepairData ==
    /\ batch_pc = "repair"
    /\ dataset' = repair_data(dataset, matches).dataset
    /\ matches' = repair_data(dataset, matches).matches
    /\ batch_pc' = "list"
    /\ UNCHANGED <<call_vars, settings, files, match_ids, idx, slot_i, failed_matches,
                   outcomes, other_pc>>
    /\ UNCHANGED ext_vars

\* create_dataset, lines 114-124
ListConverted ==
    /\ batch_pc = "list"
    /\ match_ids' = get_matches_converted_to_jsonlines(files, matches)
    /\ matches' = set_matches_parsed(matches, match_ids')
    /\ idx' = 1
    /\ batch_pc' = "loop"
    /\ UNCHANGED <<call_vars, settings, files, dataset, slot_i, failed_matches,
                   outcomes, other_pc>>
    /\ UNCHANGED ext_vars

\* _process_jsonlines, lines 48-52: the replay is downloaded and handed to
\* the extraction, which starts with fresh locals
StartMatch ==
    /\ batch_pc = "loop"
    /\ idx <= Len(match_ids)
    /\ raw' = files[match_ids[idx]]
    /\ pc' = "start"
    /\ err' = "none"
    /\ err_fields' = {}
    /\ trace' = <<>>
    /\ match_length' = 0
    /\ df' = EmptyFrame
    /\ winning_team' = "none"
    /\ processed_damage_df' = EmptyFrame
    /\ final_stats' = <<>>
    /\ processed_interval_df' = EmptyFrame
    /\ combined_df' = EmptyFrame
    /\ post_process_data' = <<>>
    /\ batch_pc' = "extract"
    /\ UNCHANGED <<settings, files, matches, dataset, match_ids, idx, slot_i,
                   failed_matches, outcomes, other_pc>>
    /\ UNCHANGED ext_vars

\* _process_jsonlines, lines 63-66: the match is recorded and None is
\* yielded, which _generate_dataset does not insert (lines 76-77)
ExtractCorrupted ==
    /\ batch_pc = "extract"
    /\ pc = "failed"
    /\ Caught(err)
    /\ failed_matches' = Append(failed_matches, match_ids[idx])
    /\ outcomes' = Append(outcomes, Outcome)
    /\ idx' = idx + 1
    /\ batch_pc' = "loop"
    /\ UNCHANGED <<call_vars, settings, files, matches, dataset, match_ids, slot_i, other_pc>>
    /\ UNCHANGED ext_vars

\* any other exception leaves _process_jsonlines and create_dataset
ExtractCrashed ==
    /\ batch_pc = "extract"
    /\ pc = "failed"
    /\ ~Caught(err)
    /\ outcomes' = Append(outcomes, Outcome)
    /\ batch_pc' = "crashed"
    /\ UNCHANGED <<call_vars, settings, files, matches, dataset, match_ids, idx, slot_i,
                   failed_matches, other_pc>>
    /\ UNCHANGED ext_vars

\* _process_jsonlines, line 58: the summary is back, the prompts follow
BeginPrompts ==
    /\ batch_pc = "extract"
    /\ pc = "done"
    /\ outcomes' = Append(outcomes, Outcome)
    /\ slot_i' = 0
    /\ batch_pc' = "yield"
    /\ UNCHANGED <<call_vars, settings, files, matches, dataset, match_ids, idx,
                   failed_matches, other_pc>>
    /\ UNCHANGED ext_vars

\* lines 58-62 and 75-77: the output of the next slot is generated, yielded
\* and inserted; (match_id, slot) is the primary key of the table
InsertOutput ==
    /\ batch_pc = "yield"
    /\ slot_i < Cardinality(DOMAIN post_process_data)
    /\ IF <<match_ids[idx], slot_i>> \in dataset
         THEN /\ batch_pc' = "crashed"
              /\ UNCHANGED <<dataset, slot_i>>
         ELSE /\ dataset' = dataset \cup {<<match_ids[idx], slot_i>>}
              /\ slot_i' = slot_i + 1
              /\ UNCHANGED batch_pc
    /\ UNCHANGED <<call_vars, settings, files, matches, match_ids, idx, failed_matches,
                   outcomes, other_pc>>
    /\ UNCHANGED ext_vars

\* GroqConnector.get_response gives up after its retries
GroqError ==
    /\ batch_pc = "yield"
    /\ slot_i < Cardinality(DOMAIN post_process_data)
    /\ batch_pc' = "crashed"
    /\ UNCHANGED <<call_vars, settings, files, matches, dataset, match_ids, idx, slot_i,
                   failed_matches, outcomes, other_pc>>
    /\ UNCHANGED ext_vars

\* the prompts of the match are exhausted: the loop goes to the next id
MatchDone ==
    /\ batch_pc = "yield"
    /\ slot_i = Cardinality(DOMAIN post_process_data)
    /\ idx' = idx + 1
    /\ batch_pc' = "loop"
    /\ UNCHANGED <<call_vars, settings, files, matches, dataset, match_ids, slot_i,
                   failed_matches, outcomes, other_pc>>
    /\ UNCHANGED ext_vars

\* _generate_dataset line 78 and create_dataset lines 126-127
FinishBatch ==
    /\ batch_pc = "loop"
    /\ idx > Len(match_ids)
    /\ batch_pc' = "finished"
    /\ UNCHANGED <<call_vars, settings, files, matches, dataset, match_ids, idx, slot_i,
                   failed_matches, outcomes, other_pc>>
    /\ UNCHANGED ext_vars

\* another caller runs process_replay_data with the same Settings object
\* and reaches normalize_per_minute_data
OtherCallStart ==
    /\ batch_pc \in {"loop", "extract", "yield"}
    /\ other_pc = "idle"
    /\ other_pc' = "interval"
    /\ UNCHANGED <<call_vars, settings, batch_pc, files, matches, dataset, match_ids, idx,
                   slot_i, failed_matches, outcomes>>
    /\ UNCHANGED ext_vars

OtherCallNormalize ==
    /\ other_pc = "interval"
    /\ settings' = SettingsAfterNormalize(settings)
    /\ other_pc' = "idle"
    /\ UNCHANGED <<call_vars, batch_pc, files, matches, dataset, match_ids, idx,
                   slot_i, failed_matches, outcomes>>
    /\ UNCHANGED ext_vars

NextBatch ==
    \/ Next
    \/ RepairData \/ ListConverted \/ StartMatch
    \/ ExtractCorrupted \/ ExtractCrashed \/ BeginPrompts
    \/ InsertOutput \/ GroqError \/ MatchDone \/ FinishBatch
    \/ OtherCallStart \/ OtherCallNormalize

SpecBatch == InitBatch /\ [][NextBatch]_vars

\* ------------------------------------------------------- Groq connector
\* the clock stops at MaxClock; get_response is called MaxCalls times
MaxClock == 70
MaxCalls == 2

\* the pipeline and the batch stand still
PipelineIdle ==
    /\ settings = [MINUTE_INTERVAL |-> 5, MAX_PLAYERS |-> MAX_PLAYERS,
                   BENCHMARK_PERCENTILE |-> BENCHMARK_PERCENTILE,
                   PER_MINUTE_COLUMNS |-> PER_MINUTE_COLUMNS]
    /\ raw = <<>>
    /\ pc = "idle"
    /\ err = "none"
    /\ err_fields = {}
    /\ trace = <<>>
    /\ match_length = 0
    /\ df = EmptyFrame
    /\ winning_team = "none"
    /\ processed_damage_df = EmptyFrame
    /\ final_stats = <<>>
    /\ processed_interval_df = EmptyFrame
    /\ combined_df = EmptyFrame
    /\ post_process_data = <<>>
    /\ batch_pc = "off"
    /\ files = <<>>
    /\ matches = <<>>
    /\ dataset = {}
    /\ match_ids = <<>>
    /\ idx = 0
    /\ slot_i = 0
    /\ failed_matches = <<>>
    /\ outcomes = <<>>
    /\ other_pc = "idle"

pipeline_vars == <<raw, settings, pc, err, err_fields, trace, match_length, df, winning_team,
                   processed_damage_df, final_stats, processed_interval_df, combined_df,
                   post_process_data, batch_vars>>

InitGroq == PipelineIdle /\ GroqIdle /\ GcsIdle

\* variant: no wait before the request
delay_time_none(t, last) == 0

\* lines 34-35: what is left of GROQ_DELAY since last_request_time
delay_time(t, last) == Max({0, GROQ_DELAY - (t - last)})

\* get_response is called (line 85); the retry decorator starts counting
GetResponse ==
    /\ groq_pc \in {"idle", "raised"}
    /\ calls < MaxCalls
    /\ calls' = calls + 1
    /\ tries' = 0
    /\ failed_at' = -1
    /\ groq_pc' = "attempt"
    /\ UNCHANGED <<now, last_request_time, wake, issued_at, completed_at, pipeline_vars, gcs_vars>>

\* lines 34-37: the attempt sleeps for what is left of the delay
ComputeDelay ==
    /\ groq_pc = "attempt"
    /\ IF delay_time(now, last_request_time) > 0
         THEN /\ wake' = now + delay_time(now, last_request_time)
              /\ groq_pc' = "sleep"
         ELSE /\ groq_pc' = "issue"
              /\ UNCHANGED wake
    /\ UNCHANGED <<now, last_request_time, tries, issued_at, completed_at, failed_at, calls,
                   pipeline_vars, gcs_vars>>

\* time.sleep returns, not before the time asked for
Wake ==
    /\ groq_pc = "sleep"
    /\ now >= wake
    /\ groq_pc' = "issue"
    /\ UNCHANGED <<now, last_request_time, tries, wake, issued_at, completed_at, failed_at,
                   calls, pipeline_vars, gcs_vars>>

\* line 38: the completion request goes out
IssueRequest ==
    /\ groq_pc = "issue"
    /\ issued_at' = now
    /\ tries' = tries + 1
    /\ groq_pc' = "requesting"
    /\ UNCHANGED <<now, last_request_time, wake, completed_at, failed_at, calls,
                   pipeline_vars, gcs_vars>>

\* lines 55-56 and 86-89: the completion is back and get_response returns
RequestSucceeds ==
    /\ groq_pc = "requesting"
    /\ last_request_time' = now
    /\ completed_at' = now
    /\ groq_pc' = "idle"
    /\ UNCHANGED <<now, tries, wake, issued_at, failed_at, calls, pipeline_vars, gcs_vars>>

\* the request raises: the decorator sleeps and tries again, or re-raises
\* after the last of its tries
RequestFails ==
    /\ groq_pc = "requesting"
    /\ failed_at' = now
    /\ IF tries < GROQ_TRIES
         THEN /\ wake' = now + GROQ_RETRY_DELAY
              /\ groq_pc' = "retry_sleep"
         ELSE /\ groq_pc' = "raised"
              /\ UNCHANGED wake
    /\ UNCHANGED <<now, last_request_time, tries, issued_at, completed_at, calls,
                   pipeline_vars, gcs_vars>>

\* the sleep of the decorator is over: the function is called again
RetryWake ==
    /\ groq_pc = "retry_sleep"
    /\ now >= wake
    /\ groq_pc' = "attempt"
    /\ UNCHANGED <<now, last_request_time, tries, wake, issued_at, completed_at, failed_at,
                   calls, pipeline_vars, gcs_vars>>

\* a second passes
Tick ==
    /\ now < MaxClock
    /\ now' = now + 1
    /\ UNCHANGED <<last_request_time, groq_pc, tries, wake, issued_at, completed_at,
                   failed_at, calls, pipeline_vars, gcs_vars>>

NextGroq ==
    \/ GetResponse \/ ComputeDelay \/ Wake \/ IssueRequest
    \/ RequestSucceeds \/ RequestFails \/ RetryWake \/ Tick

SpecGroq == InitGroq /\ [][NextGroq]_vars

\* -------------------------------------------------------- GCS connector
\* the listings of the cloud folder, by blob name relative to the prefix;
\* the blob with the empty name is the folder placeholder
Listings == {<<"a">>, <<"a", "b">>, <<"", "a", "b">>, <<"a", "b", "c">>}
\* the local folder before the download
LocalDisks ==
    { <<>>, [f \in {"z"} |-> "complete"], [f \in {"a", "z"} |-> "complete"] }

InitGcs ==
    /\ PipelineIdle
    /\ GroqIdle
    /\ gcs_pc = "idle"
    /\ blobs \in Listings
    /\ attempt = 0
    /\ blob_i = 0
    /\ disk \in LocalDisks
    /\ downloaded_files = <<>>
    /\ touched = {}

\* the disk with file f in state st
Written(d, f, st) == [x \in DOMAIN d \cup {f} |-> IF x = f THEN st ELSE d[x]]

\* variant: the handler re-raises without removing anything
RemoveNone(d, names) == d

\* lines 117-118: os.remove of every file of the list
RemoveAll(d, names) ==
    [x \in DOMAIN d \ {names[i] : i \in 1..Len(names)} |-> d[x]]

\* download, lines 31-33, for a cloud path that is a folder
StartDownload ==
    /\ gcs_pc = "idle"
    /\ gcs_pc' = "attempt"
    /\ UNCHANGED <<blobs, attempt, blob_i, disk, downloaded_files, touched,
                   pipeline_vars, groq_vars>>

\* _download_folder is entered, lines 100-102
BeginAttempt ==
    /\ gcs_pc = "attempt"
    /\ attempt' = attempt + 1
    /\ downloaded_files' = <<>>
    /\ blob_i' = 0
    /\ gcs_pc' = "loop"
    /\ UNCHANGED <<blobs, disk, touched, pipeline_vars, groq_vars>>

\* get_bucket, list_blobs or the fetch of the next page raises (lines 105-107)
ListingFails ==
    /\ gcs_pc = "loop"
    /\ gcs_pc' = "except"
    /\ UNCHANGED <<blobs, attempt, blob_i, disk, downloaded_files, touched,
                   pipeline_vars, groq_vars>>

\* lines 110-111: the blob with the empty name is passed over
SkipEmpty ==
    /\ gcs_pc = "loop"
    /\ blob_i < Len(blobs)
    /\ blobs[blob_i + 1] = ""
    /\ blob_i' = blob_i + 1
    /\ UNCHANGED <<gcs_pc, blobs, attempt, disk, downloaded_files, touched,
                   pipeline_vars, groq_vars>>

\* lines 112-115: the blob is written to its local file and listed
DownloadBlob ==
    /\ gcs_pc = "loop"
    /\ blob_i < Len(blobs)
    /\ blobs[blob_i + 1] # ""
    /\ disk' = Written(disk, blobs[blob_i + 1], "complete")
    /\ downloaded_files' = Append(downloaded_files, blobs[blob_i + 1])
    /\ touched' = touched \cup {blobs[blob_i + 1]}
    /\ blob_i' = blob_i + 1
    /\ UNCHANGED <<gcs_pc, blobs, attempt, pipeline_vars, groq_vars>>

\* line 114 raises: download_to_filename has not opened the local file yet,
\* or has opened it and leaves it with what had arrived, or has removed it
DownloadBlobFails ==
    /\ gcs_pc = "loop"
    /\ blob_i < Len(blobs)
    /\ blobs[blob_i + 1] # ""
    /\ \E left \in {"untouched", "partial", "removed"} :
          /\ disk' = IF left = "partial" THEN Written(disk, blobs[blob_i + 1], "partial")
                     ELSE IF left = "removed" THEN RemoveAll(disk, <<blobs[blob_i + 1]>>)
                     ELSE disk
          /\ touched' = IF left = "partial" THEN touched \cup {blobs[blob_i + 1]} ELSE touched
    /\ gcs_pc' = "except"
    /\ UNCHANGED <<blobs, attempt, blob_i, downloaded_files, pipeline_vars, groq_vars>>

\* lines 116-120 and the retry decorator (line 93): the listed files are
\* removed and the exception is raised again; the decorator calls the
\* function again or, after the last of its tries, lets the exception out
Cleanup ==
    /\ gcs_pc = "except"
    /\ disk' = RemoveAll(disk, downloaded_files)
    /\ gcs_pc' = IF attempt < GCS_TRIES THEN "attempt" ELSE "raised"
    /\ UNCHANGED <<blobs, attempt, blob_i, downloaded_files, touched, pipeline_vars, groq_vars>>

\* the loop of line 107 is through: the folder is downloaded
DownloadDone ==
    /\ gcs_pc = "loop"
    /\ blob_i = Len(blobs)
    /\ gcs_pc' = "done"
    /\ UNCHANGED <<blobs, attempt, blob_i, disk, downloaded_files, touched,
                   pipeline_vars, groq_vars>>

NextGcs ==
    \/ StartDownload \/ BeginAttempt \/ ListingFails \/ SkipEmpty
    \/ DownloadBlob \/ DownloadBlobFails \/ Cleanup \/ DownloadDone

SpecGcs == InitGcs /\ [][NextGcs]_vars

\* ================================================================ claims
Finished == pc \in {"done", "failed"}
Ran(step) == \E i \in 1..Len(trace) : trace[i] = step
HasType(t) == \E i \in 1..Len(raw) : raw[i].type = t
RawOfType(t) == SelectSeq(raw, LAMBDA e : e.type = t)
\* the fields of an interval event that the aggregator reads
RawIntervalFields ==
    {"time", "level", "hero_id", "teamfight_participation", "kills", "deaths", "assists",
     "gold", "xp", "denies", "lh", "slot"}
\* no interval event carries field f
FieldAbsent(f) == \A i \in 1..Len(raw) : raw[i].type = "interval" => f \notin DOMAIN raw[i]
AllTypesPresent ==
    HasType("interval") /\ HasType("DOTA_COMBATLOG_DAMAGE")
        /\ HasType("DOTA_COMBATLOG_TEAM_BUILDING_KILL")
ValidInput == AllTypesPresent /\ \A f \in RawIntervalFields : ~FieldAbsent(f)

\* a building kill is left after the pre-match time filter
SurvivingBuildingKill ==
    \E i \in 1..Len(raw) : raw[i].type = "DOTA_COMBATLOG_TEAM_BUILDING_KILL" /\ raw[i].time >= 0

\* C1: every input that has the three event types and the interval fields
\* (and a building kill in match time) ends in a returned mapping whose keys
\* are exactly the slots 0..9, however few snapshots a slot has
C1_TenSlots ==
    (ValidInput /\ SurvivingBuildingKill /\ Finished) =>
        (pc = "done" /\ DOMAIN post_process_data = 0..9)

\* C2: when one of the three required event types is absent from the raw
\* stream the run fails with CorruptedDataError in the validation step, and
\* no later step (preprocessing, winner, aggregation) has run or written
C2_MissingTypeFails ==
    (~AllTypesPresent /\ pc # "start") =>
        /\ pc = "failed"
        /\ err = "CorruptedDataError"
        /\ trace = <<"validate">>
        /\ df = EmptyFrame /\ winning_team = "none" /\ processed_damage_df = EmptyFrame
        /\ final_stats = <<>> /\ processed_interval_df = EmptyFrame
        /\ \A t \in {"interval", "DOTA_COMBATLOG_DAMAGE", "DOTA_COMBATLOG_TEAM_BUILDING_KILL"} :
              ~HasType(t) => t \in err_fields
C2_Witness ==
    /\ pc = "failed" /\ err = "CorruptedDataError"
    /\ ~HasType("DOTA_COMBATLOG_TEAM_BUILDING_KILL")
    /\ HasType("interval") /\ HasType("DOTA_COMBATLOG_DAMAGE")

\* C3: when a field the Interval Aggregator reads is on no interval event of
\* an otherwise valid stream, the run fails with CorruptedDataError naming
\* the field, and no other exception comes first
C3_MissingFieldCorrupted ==
    \A f \in RawIntervalFields :
        (AllTypesPresent /\ SurvivingBuildingKill /\ FieldAbsent(f) /\ Finished) =>
            (pc = "failed" /\ err = "CorruptedDataError" /\ f \in err_fields)

\* C4: when no building kill is left for the Winner Extractor the run fails
\* with CorruptedDataError and extract_winning_team has not been invoked
C4_EmptyBuildingCorrupted ==
    (~SurvivingBuildingKill /\ (\A f \in RawIntervalFields : ~FieldAbsent(f)) /\ Finished) =>
        (pc = "failed" /\ err = "CorruptedDataError" /\ ~Ran("extract_winning_team"))

TeamOfTarget(e) == IF e.targetname = BadguysFort THEN "radiant" ELSE "dire"
RawBuildings == RawOfType("DOTA_COMBATLOG_TEAM_BUILDING_KILL")

\* C5 as stated: the winner follows the last building kill in stream order
C5_LastInStreamOrder ==
    winning_team # "none" => winning_team = TeamOfTarget(RawBuildings[Len(RawBuildings)])

\* the building kill with the greatest time among those not before time 0,
\* the last of them in stream order when several share that time
LatestKill ==
    LET b == RawBuildings
    IN CHOOSE i \in 1..Len(b) :
          /\ b[i].time >= 0
          /\ \A j \in 1..Len(b) :
                b[j].time >= 0 => (b[j].time < b[i].time \/ (b[j].time = b[i].time /\ j <= i))

\* C5 amended: the winner is radiant iff the target of the latest building
\* kill (by time, among those with time >= 0) is the bad guys' fort; it is a
\* function of the building kills alone
C5_LatestByTime ==
    winning_team # "none" => winning_team = TeamOfTarget(RawBuildings[LatestKill])
C5_Witness ==
    /\ winning_team = "dire"
    /\ Len(RawBuildings) = 2
    /\ RawBuildings[1].time > RawBuildings[2].time
    /\ RawBuildings[2].targetname = BadguysFort

\* the raw snapshots behind the interval record of block b and slot sl
RawGroup(b, sl) ==
    SelectSeq(raw, LAMBDA e : /\ e.type = "interval"
                              /\ e.time >= 0
                              /\ (e.time \div 60) \div settings.MINUTE_INTERVAL = b
                              /\ e.slot = sl)
GroupVals(g, c) == {g[i][c] : i \in 1..Len(g)}
IntervalRecords == {processed_interval_df.rows[i] : i \in 1..Len(processed_interval_df.rows)}
DamageRecords == {processed_damage_df.rows[i] : i \in 1..Len(processed_damage_df.rows)}
CombinedRows == {combined_df.rows[i] : i \in 1..Len(combined_df.rows)}
HasDamageRecord(r) == \E d \in DamageRecords : d.block = r.block /\ d.attackername = r.hero_name
\* the entries of the returned per-block stats of r's slot that are r's block
StatsOf(r) ==
    LET st == post_process_data[r.slot].stats
    IN {i \in 1..Len(st) : st[i].minute = r.minute}

\* C6: every (block, slot) of the Interval Aggregator output is in the
\* joined frame exactly once, nothing else is, and in the returned stats a
\* pair without a damage record has damage per minute 0
C6_LeftJoinComplete ==
    /\ Ran("normalize_per_minute_data") =>
          /\ Len(combined_df.rows) = Len(processed_interval_df.rows)
          /\ \A r \in IntervalRecords :
                Cardinality({i \in 1..Len(combined_df.rows) :
                    combined_df.rows[i].block = r.block /\ combined_df.rows[i].slot = r.slot}) = 1
    /\ pc = "done" =>
          \A r \in IntervalRecords :
              /\ Cardinality(StatsOf(r)) = 1
              /\ ~HasDamageRecord(r) =>
                    \A i \in StatsOf(r) : post_process_data[r.slot].stats[i].damage_per_minute = 0
C6_Witness ==
    /\ pc = "done"
    /\ \E r \in IntervalRecords : ~HasDamageRecord(r) /\ r.slot = 0
    /\ \E r \in IntervalRecords :
          /\ HasDamageRecord(r)
          /\ \E i \in StatsOf(r) : post_process_data[r.slot].stats[i].damage_per_minute > 0

\* C7: the windowed gain of gold, xp, denies and last hits of every
\* (block, slot) record is max - min of the counter over the group's snapshots
C7_GainIsMaxMinusMin ==
    \A r \in IntervalRecords :
        LET g == RawGroup(r.block, r.slot)
        IN \A c \in {"gold", "xp", "denies", "lh"} :
              r[c] = Max(GroupVals(g, c)) - Min(GroupVals(g, c))
\* a group whose counter falls in time: last - first is not max - min
C7_Witness ==
    \E r \in IntervalRecords :
        LET g == RawGroup(r.block, r.slot)
        IN /\ Len(g) = 2
           /\ g[1].time < g[2].time
           /\ g[1].gold > g[2].gold
           /\ r.gold = g[1].gold - g[2].gold

ToyRaws == {sc.raw : sc \in ToyStreams}
ToyCadence == raw[2].time - raw[1].time

\* C8 as stated: in the toy match slot 0 gets 100 gold per minute for the
\* first block and 160 for the second
C8_ToyRates ==
    (raw \in ToyRaws /\ pc = "done") =>
        /\ post_process_data[0].stats[1].gold_per_minute = 100
        /\ post_process_data[0].stats[2].gold_per_minute = 160

\* C8 amended: the rates are 100 and 160 when the slot reports once a minute
\* (or every 150 s), so that both five-minute windows [0, 300) and [300, 600)
\* hold several snapshots whose gain over their span is exact; the snapshot
\* at 600 s is a third block of rate 0
C8_ToyRatesMinuteCadence ==
    (raw \in ToyRaws /\ ToyCadence \in MinuteCadences /\ pc = "done") =>
        /\ Len(post_process_data[0].stats) = 3
        /\ post_process_data[0].stats[1].gold_per_minute = 100
        /\ post_process_data[0].stats[2].gold_per_minute = 160
        /\ post_process_data[0].stats[3].gold_per_minute = 0
C8_Witness ==
    /\ raw \in ToyRaws /\ ToyCadence = 60 /\ pc = "done"
    /\ post_process_data[0].stats[2].gold_per_minute = 160

\* C9: kda of every interval record is (max kills + max assists) over
\* max(max deaths, 1) of the group's snapshots, and the divisor is >= 1
C9_KdaFloor ==
    \A r \in IntervalRecords :
        LET g == RawGroup(r.block, r.slot)
            deaths == Max(GroupVals(g, "deaths"))
        IN /\ r.kda[1] = Max(GroupVals(g, "kills")) + Max(GroupVals(g, "assists"))
           /\ r.kda[2] = (IF deaths > 1 THEN deaths ELSE 1)
           /\ r.kda[2] >= 1
\* a group without a death whose kills and assists fall in time
C9_Witness ==
    \E r \in IntervalRecords :
        LET g == RawGroup(r.block, r.slot)
        IN /\ Len(g) = 2
           /\ g[1].deaths = 0 /\ g[2].deaths = 0
           /\ g[1].time < g[2].time /\ g[1].kills > g[2].kills
           /\ r.kda = <<g[1].kills + g[1].assists, 1>>

\* C10: the damage per minute of every block with hero damage is a finite,
\* non-negative number
C10_DpmFinite ==
    \A r \in CombinedRows :
        Has(r, "attackername") => (r.dpm.k = "num" /\ r.dpm.n >= 0 /\ r.dpm.d > 0)

\* the last second of the match: the greatest time of an interval snapshot
\* that is not before time 0
LastRawSecond ==
    Max({raw[i].time : i \in {j \in 1..Len(raw) : raw[j].type = "interval" /\ raw[j].time >= 0}})
\* the snapshots of slot s that are not before time 0, in stream order
RawSlotSnaps(s) ==
    SelectSeq(raw, LAMBDA e : e.type = "interval" /\ e.time >= 0 /\ e.slot = s)
\* every slot reports at the last second of the match
AllSlotsTerminal ==
    \A s \in Slots : \E i \in 1..Len(raw) :
        raw[i].type = "interval" /\ raw[i].slot = s /\ raw[i].time = LastRawSecond
\* the block of the record spans no time
ZeroSpan(r) == r.time = r.block_start
\* the entry of the returned stats that belongs to the record r
StatsEntryOf(r) == post_process_data[r.slot].stats[CHOOSE i \in StatsOf(r) : TRUE]
\* the damage summed for the record r, 0 without a damage record
DamageOf(r) ==
    IF HasDamageRecord(r)
      THEN (CHOOSE d \in DamageRecords :
                d.block = r.block /\ d.attackername = r.hero_name).damage_dealt_to_heroes
      ELSE 0

\* C11: a run whose input is valid and that has a (block, slot) record of
\* zero span completes, and the rates of such a record are the gain and the
\* damage over a span of one second (times 60)
C11_ZeroSpanFloor ==
    (ValidInput /\ SurvivingBuildingKill /\ AllSlotsTerminal /\ Finished
        /\ Ran("aggregate_interval_data") /\ \E r \in IntervalRecords : ZeroSpan(r)) =>
        /\ pc = "done"
        /\ \A r \in IntervalRecords : ZeroSpan(r) =>
              /\ StatsEntryOf(r).gold_per_minute = r.gold * 60
              /\ StatsEntryOf(r).xp_per_minute = r.xp * 60
              /\ StatsEntryOf(r).damage_per_minute = DamageOf(r) * 60

\* a slot without any snapshot in match time has no terminal snapshot
SlotWithoutSnapshot == \E s \in Slots : RawSlotSnaps(s) = <<>>

\* C12: when a slot in 0..9 has no terminal snapshot the run fails with
\* CorruptedDataError, not with an index or lookup error
C12_NoTerminalCorrupted ==
    (ValidInput /\ SurvivingBuildingKill /\ SlotWithoutSnapshot /\ Finished) =>
        (pc = "failed" /\ err = "CorruptedDataError")

\* the cumulative counters the end-of-match totals are read from
TotalsLabel ==
    [gold |-> "Total gold", lh |-> "Total last hits", denies |-> "Total denies",
     xp |-> "Total xp", kills |-> "Total kills", deaths |-> "Total deaths",
     assists |-> "Total assists"]
\* the totals fs are the counters of the snapshot e
TotalsAre(fs, e) == \A c \in DOMAIN TotalsLabel : fs[TotalsLabel[c]] = e[c]
\* e is a snapshot of greatest time among the snapshots q
IsLatestOf(e, q) == \A j \in 1..Len(q) : q[j].time <= e.time

\* C13: once the Final-Stats Extractor has run on a valid stream in which
\* every slot has a snapshot, the totals of every slot are the counters of
\* the slot's own latest snapshot, also when other slots report later
C13_TotalsFromOwnLast ==
    (ValidInput /\ SurvivingBuildingKill /\ ~SlotWithoutSnapshot /\ Ran("compute_final_stats")) =>
        /\ final_stats # <<>>
        /\ \A s \in Slots :
              \E i \in 1..Len(RawSlotSnaps(s)) :
                  /\ IsLatestOf(RawSlotSnaps(s)[i], RawSlotSnaps(s))
                  /\ TotalsAre(final_stats[s], RawSlotSnaps(s)[i])

\* the snapshots of slot s at the last second of the match
RawTerminalSnaps(s) == SelectSeq(RawSlotSnaps(s), LAMBDA e : e.time = LastRawSecond)
\* the value t, in tenths, is n / d rounded to one decimal place
IsNearestTenth(t, n, d) ==
    /\ 2 * (10 * n - t * d) <= d
    /\ 2 * (t * d - 10 * n) <= d

\* C14: in the returned Match Summary the Total KDA of every slot is
\* (kills + assists) / max(deaths, 1) of its terminal snapshot, to one decimal
C14_TotalKdaOneDecimal ==
    pc = "done" =>
        \A s \in Slots :
            \E i \in 1..Len(RawTerminalSnaps(s)) :
                LET e == RawTerminalSnaps(s)[i]
                IN IsNearestTenth(10 * post_process_data[s].final_stats["Total KDA"],
                                  e.kills + e.assists, IF e.deaths > 1 THEN e.deaths ELSE 1)

\* t is n / d (n >= 0) truncated toward zero
IsTruncation(t, n, d) == t * d <= n /\ n < (t + 1) * d
\* t is n / d rounded to the nearest integer, a tie going to the even one
IsNearestInt(t, n, d) ==
    /\ 2 * (n - t * d) <= d
    /\ 2 * (t * d - n) <= d
    /\ (2 * (n - t * d) = d \/ 2 * (t * d - n) = d) => t % 2 = 0
\* the benchmark rates (hundredths per minute) of the hero in slot s
RateOf(s) == benchmarks[s + 1][BENCHMARK_PERCENTILE]
\* a rate is in hundredths per minute and match_length in seconds, so the
\* products below are in 1/6000 of a unit

\* C15 as stated: gold, xp and damage are truncated, kills and last hits
\* rounded to the nearest integer
C15_DamageTruncated ==
    pc = "done" =>
        \A s \in Slots :
            LET b == post_process_data[s].benchmarks
            IN /\ IsTruncation(b.Total_gold, RateOf(s).gold_per_min * match_length, 6000)
               /\ IsTruncation(b.Total_xp, RateOf(s).xp_per_min * match_length, 6000)
               /\ IsTruncation(b.Total_damage, RateOf(s).hero_damage_per_min * match_length, 6000)
               /\ IsNearestInt(b.Total_kills, RateOf(s).kills_per_min * match_length, 6000)
               /\ IsNearestInt(b.Total_last_hits, RateOf(s).last_hits_per_min * match_length, 6000)

\* C15 amended: gold and xp are truncated; kills, last hits and damage are
\* rounded to the nearest integer
C15_BenchmarkTotals ==
    pc = "done" =>
        \A s \in Slots :
            LET b == post_process_data[s].benchmarks
            IN /\ IsTruncation(b.Total_gold, RateOf(s).gold_per_min * match_length, 6000)
               /\ IsTruncation(b.Total_xp, RateOf(s).xp_per_min * match_length, 6000)
               /\ IsNearestInt(b.Total_damage, RateOf(s).hero_damage_per_min * match_length, 6000)
               /\ IsNearestInt(b.Total_kills, RateOf(s).kills_per_min * match_length, 6000)
               /\ IsNearestInt(b.Total_last_hits, RateOf(s).last_hits_per_min * match_length, 6000)
\* a summary whose xp total is not the nearest integer and whose damage,
\* kills and last-hit totals are not the truncation
C15_Witness ==
    /\ pc = "done"
    /\ LET b == post_process_data[0].benchmarks
       IN /\ ~IsNearestInt(b.Total_xp, RateOf(0).xp_per_min * match_length, 6000)
          /\ ~IsTruncation(b.Total_damage, RateOf(0).hero_damage_per_min * match_length, 6000)
          /\ ~IsTruncation(b.Total_kills, RateOf(0).kills_per_min * match_length, 6000)
          /\ ~IsTruncation(b.Total_last_hits, RateOf(0).last_hits_per_min * match_length, 6000)

\* the slots of the returned summary whose win flag is set
WinningSlots == {s \in Slots : post_process_data[s].win}

\* C16: in every returned Match Summary slots 0-4 are radiant and slots 5-9
\* dire, a slot's win flag is set iff its team is the extracted winner, and
\* exactly five slots, all of one team, have the flag set
C16_TeamsAndWinFlags ==
    pc = "done" =>
        /\ \A s \in 0..4 : post_process_data[s].team = "radiant"
        /\ \A s \in 5..9 : post_process_data[s].team = "dire"
        /\ \A s \in Slots : post_process_data[s].win <=> (post_process_data[s].team = winning_team)
        /\ Cardinality(WinningSlots) = 5
        /\ \A s \in WinningSlots, t \in WinningSlots :
              post_process_data[s].team = post_process_data[t].team
\* a returned summary of a match the dire team won
C16_Witness ==
    /\ pc = "done"
    /\ winning_team = "dire"
    /\ WinningSlots = 5..9
    /\ RawBuildings[Len(RawBuildings)].targetname = GoodguysFort

\* the numeric fields of an interval snapshot
NumericFields ==
    {"gold", "xp", "lh", "denies", "kills", "deaths", "assists", "level",
     "teamfight_participation"}
\* a numeric value is absent on some interval snapshot in match time
SomeValueAbsent ==
    \E i \in 1..Len(raw) :
        raw[i].type = "interval" /\ raw[i].time >= 0 /\ ~(NumericFields \subseteq DOMAIN raw[i])
\* no rate of the joined frame is infinite
NoInfiniteRate == ~(\E s \in Slots : HasInf(SlotRows(combined_df, s)))
\* the total of counter c of slot s comes out 0 when the counter is absent
\* on the slot's terminal snapshot
AbsentTotalIsZero(s, c) ==
    LET t == RawTerminalSnaps(s)
    IN c \notin DOMAIN t[Len(t)] => post_process_data[s].final_stats[TotalsLabel[c]] = 0

\* C17: a valid stream in which a numeric value is absent on some snapshot
\* is still processed to the end; the returned totals are all there, and a
\* total whose counter is absent on the terminal snapshot is 0
C17_AbsentIsZero ==
    (ValidInput /\ SurvivingBuildingKill /\ AllSlotsTerminal /\ SomeValueAbsent
        /\ Finished /\ NoInfiniteRate) =>
        /\ pc = "done"
        /\ \A s \in Slots :
              /\ DOMAIN post_process_data[s].final_stats = FinalStatsKeys
              /\ \A c \in DOMAIN TotalsLabel : AbsentTotalIsZero(s, c)

\* two extractions of the same replay in one run ended in the same way
OutcomeStable ==
    \A i \in 1..Len(outcomes), j \in 1..Len(outcomes) :
        files[outcomes[i].match_id] = files[outcomes[j].match_id] =>
            /\ outcomes[i].err = outcomes[j].err
            /\ outcomes[i].summary = outcomes[j].summary

DatasetRows(m) == {r \in dataset : r[1] = m}
\* match m is in failed_matches
Failed(m) == \E i \in 1..Len(failed_matches) : failed_matches[i] = m

\* C19: a match whose extraction raised CorruptedDataError does not crash
\* the batch: its id is in failed_matches, the dataset has no row of it, the
\* loop has moved past it, and a batch that finishes has processed every id
C19_CorruptedMatchSkipped ==
    /\ \A i \in 1..Len(outcomes) :
          outcomes[i].err = "CorruptedDataError" =>
              /\ Failed(outcomes[i].match_id)
              /\ DatasetRows(outcomes[i].match_id) = {}
              /\ idx > i
              /\ (batch_pc = "crashed" => i < Len(outcomes))
    /\ batch_pc = "finished" =>
          /\ Len(outcomes) = Len(match_ids)
          /\ \A i \in 1..Len(match_ids) : outcomes[i].match_id = match_ids[i]
\* a finished batch whose first match was corrupted and whose second match
\* has its ten rows
C19_Witness ==
    /\ batch_pc = "finished"
    /\ Len(outcomes) = 2
    /\ outcomes[1].err = "CorruptedDataError"
    /\ failed_matches = <<match_ids[1]>>
    /\ outcomes[2].err = "none"
    /\ Cardinality(DatasetRows(match_ids[2])) = 10

\* C20: when create_dataset finishes, every match whose ten outputs were
\* generated and inserted in the run is marked is_in_dataset = 1
C20_GeneratedMarked ==
    batch_pc = "finished" =>
        \A i \in 1..Len(outcomes) :
            (outcomes[i].err = "none" /\ Cardinality(DatasetRows(outcomes[i].match_id)) = 10) =>
                matches[outcomes[i].match_id].is_in_dataset = 1

\* seconds of one block of the configured width
BlockSeconds == 60 * settings.MINUTE_INTERVAL
\* the preprocessed frame exists
Preprocessed == Ran("preprocess_data") /\ df.rows # <<>>
\* preprocess_data has just returned it; no later step assigns df
JustPreprocessed == pc = "preprocessed" /\ df.rows # <<>>

\* C21 (as stated): every event with time t > 0 is in block
\* floor((t - 1) / 60 / width), so the event at t = 60 * width is in block 0
C21_BlockOfPreviousSecond ==
    JustPreprocessed =>
        \A i \in 1..Len(df.rows) :
            df.rows[i].time > 0 => df.rows[i].block = (df.rows[i].time - 1) \div BlockSeconds

\* C21 (amended): every event with time t >= 0 is in block
\* floor(floor(t / 60) / width); block k covers the 60 * width seconds from
\* 60 * width * k on, so the event at t = 60 * width is the first of block 1,
\* and the block index is non-decreasing in t
C21_BlockIndex ==
    JustPreprocessed =>
        /\ \A i \in 1..Len(df.rows) :
              LET r == df.rows[i]
              IN /\ r.block * BlockSeconds <= r.time
                 /\ r.time < (r.block + 1) * BlockSeconds
                 /\ (r.time = BlockSeconds => r.block = 1)
        /\ \A i, j \in 1..Len(df.rows) :
              df.rows[i].time <= df.rows[j].time => df.rows[i].block <= df.rows[j].block

\* a snapshot and a damage event after second 0, one exactly at the block edge
C21_Witness ==
    /\ Preprocessed
    /\ \E i \in 1..Len(df.rows) :
          df.rows[i].type = "interval" /\ df.rows[i].time = BlockSeconds
    /\ \E i \in 1..Len(df.rows) :
          df.rows[i].type = "DOTA_COMBATLOG_DAMAGE" /\ df.rows[i].time > BlockSeconds

\* the event without the derived columns
Underived(r) == DropField(DropField(r, "minute"), "block")
RawTimed(P(_)) == SelectSeq(raw, LAMBDA e : Has(e, "time") /\ P(e.time))
IsNegative(t) == t < 0
NotNegative(t) == t >= 0

\* C22 (as stated): every event with time <= 0, the events at second 0
\* included, is discarded before aggregation, and no interval record starts
\* at such an event
C22_NothingAtOrBeforeZero ==
    /\ JustPreprocessed => \A i \in 1..Len(df.rows) : df.rows[i].time > 0
    /\ \A i \in 1..Len(processed_interval_df.rows) :
          processed_interval_df.rows[i].block_start > 0

\* C22 (amended): the events with time < 0 are discarded before aggregation
\* and every event with time >= 0, the events at second 0 included, is kept:
\* the preprocessed frame holds exactly the events of the stream with
\* time >= 0
C22_PreMatchDiscarded ==
    JustPreprocessed =>
        /\ \A i \in 1..Len(df.rows) : df.rows[i].time >= 0
        /\ Len(df.rows) = Len(RawTimed(NotNegative))
        /\ \A i \in 1..Len(raw) :
              (Has(raw[i], "time") /\ raw[i].time >= 0) =>
                  \E j \in 1..Len(df.rows) : Underived(df.rows[j]) = raw[i]

\* a stream with a snapshot before second 0 and a snapshot at second 0 has
\* been aggregated
C22_Witness ==
    /\ Ran("aggregate_interval_data") /\ pc # "failed"
    /\ \E i \in 1..Len(raw) : raw[i].type = "interval" /\ raw[i].time < 0
    /\ \E i \in 1..Len(raw) : raw[i].type = "interval" /\ raw[i].time = 0
    /\ \E i \in 1..Len(raw) : raw[i].type = "DOTA_COMBATLOG_DAMAGE" /\ raw[i].time < 0

\* the stream with the events at positions i and j exchanged
Swap(q, i, j) == [k \in 1..Len(q) |-> IF k = i THEN q[j] ELSE IF k = j THEN q[i] ELSE q[k]]
\* the Interval Aggregator run on a stream from its start
IntervalAggregateOf(stream) ==
    aggregate_interval_data(
        get_df_by_type(preprocess_data(Frame(stream), settings.MINUTE_INTERVAL), "interval"))
\* the (block, slot) group a snapshot of the stream goes to
IsGrouped(e) == e.type = "interval" /\ Has(e, "slot") /\ Has(e, "time") /\ e.time >= 0
SameGroup(a, b) ==
    /\ IsGrouped(a) /\ IsGrouped(b)
    /\ a.slot = b.slot
    /\ (a.time \div 60) \div settings.MINUTE_INTERVAL = (b.time \div 60) \div settings.MINUTE_INTERVAL
\* pairs of stream positions that hold two snapshots of one group
GroupPairs == {p \in (1..Len(raw)) \X (1..Len(raw)) : p[1] < p[2] /\ SameGroup(raw[p[1]], raw[p[2]])}
\* no two snapshots of the group of e were taken at the same second
GroupTimesDistinct(e) ==
    \A i, j \in 1..Len(raw) :
        (i # j /\ SameGroup(e, raw[i]) /\ SameGroup(e, raw[j])) => raw[i].time # raw[j].time
\* the aggregates that are not taken from one last snapshot
LastObserved == {"level", "hero_id", "hero_name", "localized_hero_name"}
Commutative(rows) == [k \in 1..Len(rows) |-> [c \in DOMAIN rows[k] \ LastObserved |-> rows[k][c]]]

\* C23 (as stated): every aggregate of a (block, slot) group is the same
\* whatever the order of the group's snapshots in the input stream
C23_OrderIndependent ==
    pc = "interval" =>
        \A p \in GroupPairs :
            IntervalAggregateOf(Swap(raw, p[1], p[2])) = processed_interval_df

\* C23 (amended): block end, block start, teamfight sum, max kills / deaths /
\* assists, windowed gains and kda of a group are the same whatever the
\* order of the group's snapshots in the stream; level and hero id are too
\* when no two snapshots of the group carry the same time; and the
\* aggregator run again on the same stream gives the same output
C23_OrderIndependentUpToTies ==
    pc = "interval" =>
        /\ IntervalAggregateOf(raw) = processed_interval_df
        /\ \A p \in GroupPairs :
              LET other == IntervalAggregateOf(Swap(raw, p[1], p[2]))
              IN /\ Commutative(other.rows) = Commutative(processed_interval_df.rows)
                 /\ GroupTimesDistinct(raw[p[1]]) => other = processed_interval_df

\* a group whose snapshots are out of time order in the stream and differ in
\* their counters has been aggregated
C23_Witness ==
    /\ pc = "interval"
    /\ \E p \in GroupPairs :
          /\ raw[p[1]].time > raw[p[2]].time
          /\ raw[p[1]].level # raw[p[2]].level
          /\ raw[p[1]].gold # raw[p[2]].gold

\* the damage events the Damage Aggregator is handed
DamageInput == get_df_by_type(df, "DOTA_COMBATLOG_DAMAGE").rows
HeroPrefix == "npc_dota_hero_"
\* the four conditions of the claim
Contributes(e) ==
    /\ e.attackername[1] = HeroPrefix
    /\ e.targetname[1] = HeroPrefix
    /\ e.attackerhero = 1
    /\ e.targethero = 1
Contributing == SelectSeq(DamageInput, Contributes)
DamageKeys == {<<Contributing[i].block, Contributing[i].attackername>> : i \in 1..Len(Contributing)}
ValuesOf(key) ==
    ColSeq(SelectSeq(Contributing, LAMBDA e : e.block = key[1] /\ e.attackername = key[2]), "value")
RecordsOf(key) ==
    SelectSeq(processed_damage_df.rows, LAMBDA r : r.block = key[1] /\ r.attackername = key[2])

\* C24: the damage records are exactly one per (block, attackername) that has
\* an event with the hero prefix on attacker and target and both hero flags
\* set, and the record's damage is the sum of value over those events; an
\* event that fails one of the four conditions contributes to no record
C24_HeroDamageOnly ==
    (Ran("aggregate_damage_data") /\ pc # "failed") =>
        /\ Len(processed_damage_df.rows) = Cardinality(DamageKeys)
        /\ \A key \in DamageKeys :
              /\ Len(RecordsOf(key)) = 1
              /\ RecordsOf(key)[1].damage_dealt_to_heroes = SumSeq(ValuesOf(key))

\* the aggregator has seen a contributing event and, in the same block and
\* for the same attacker, events that fail exactly one of the conditions
C24_Witness ==
    /\ Ran("aggregate_damage_data") /\ pc # "failed"
    /\ Contributing # <<>>
    /\ \E i \in 1..Len(DamageInput) :
          DamageInput[i].attackername[1] # HeroPrefix /\ DamageInput[i].attackerhero = 1
    /\ \E i \in 1..Len(DamageInput) :
          DamageInput[i].targetname[1] # HeroPrefix /\ DamageInput[i].targethero = 1
    /\ \E i \in 1..Len(DamageInput) :
          DamageInput[i].attackername[1] = HeroPrefix /\ DamageInput[i].attackerhero = 0
    /\ \E i \in 1..Len(DamageInput) :
          DamageInput[i].targetname[1] = HeroPrefix /\ DamageInput[i].targethero = 0

DerivedFields == {"minute", "block"}
\* no event of the caller's stream carries a derived field
RawUnderived == \A i \in 1..Len(raw) : DOMAIN raw[i] \cap DerivedFields = {}

RowMatches == {r[1] : r \in dataset}
\* repair_data has just returned
Repaired == batch_pc = "list"

\* C26: when repair_data has returned, every match with rows in the dataset
\* table has exactly 10 of them, a match of the matches table has
\* is_in_dataset = 1 if it has 10 dataset rows and 0 otherwise, and
\* repair_data run once more changes neither table
C26_RepairConsistent ==
    Repaired =>
        /\ \A m \in RowMatches : Cardinality(DatasetRows(m)) = 10
        /\ \A m \in DOMAIN matches :
              matches[m].is_in_dataset = IF Cardinality(DatasetRows(m)) = 10 THEN 1 ELSE 0
        /\ repair_data(dataset, matches).dataset = dataset
        /\ repair_data(dataset, matches).matches = matches

\* repair_data has returned with a complete match marked and a match
\* without rows unmarked
C26_Witness ==
    /\ Repaired
    /\ \E m \in DOMAIN matches :
          Cardinality(DatasetRows(m)) = 10 /\ matches[m].is_in_dataset = 1
    /\ \E m \in DOMAIN matches : DatasetRows(m) = {} /\ matches[m].is_in_dataset = 0

\* every snapshot of slot s in the stream, pre-match snapshots included
AllSlotSnaps(s) == SelectSeq(raw, LAMBDA e : e.type = "interval" /\ e.slot = s)
\* counter c of slot s is never negative and never falls as time goes on
Monotone(s, c) ==
    LET q == AllSlotSnaps(s)
    IN /\ \A i \in 1..Len(q) : q[i][c] >= 0
       /\ \A i, j \in 1..Len(q) : q[i].time <= q[j].time => q[i][c] <= q[j][c]
\* the windowed gains of counter c over the blocks of slot s
GainsOf(s, c) == ColSeq(SelectSeq(processed_interval_df.rows, LAMBDA r : r.slot = s), c)
GainCounters == {"gold", "xp", "lh", "denies"}
Aggregated == Ran("aggregate_interval_data") /\ pc # "failed"

\* C27: for a slot and a counter that is non-negative and non-decreasing in
\* time, every per-block windowed gain is >= 0 and the gains of the slot's
\* blocks add up to at most the slot's end-of-match total of the counter
C27_GainsWithinTotal ==
    Aggregated =>
        \A s \in Slots : \A c \in GainCounters :
            Monotone(s, c) =>
                /\ \A i \in 1..Len(GainsOf(s, c)) : GainsOf(s, c)[i] >= 0
                /\ SumSeq(GainsOf(s, c)) <= final_stats[s][TotalsLabel[c]]

\* a slot with a rising counter, gains in two blocks, and a gain between the
\* blocks that no block counts
C27_Witness ==
    /\ Aggregated
    /\ \E s \in Slots :
          /\ Monotone(s, "gold")
          /\ Cardinality({i \in 1..Len(GainsOf(s, "gold")) : GainsOf(s, "gold")[i] > 0}) >= 2
          /\ SumSeq(GainsOf(s, "gold")) < final_stats[s]["Total gold"]

\* the times of the interval events of the stream, pre-match ones included
RawIntervalTimes == {raw[i].time : i \in {j \in 1..Len(raw) : raw[j].type = "interval"}}
RawSpan == Max(RawIntervalTimes) - Min(RawIntervalTimes)
\* the times of the events of the other types
OtherTimes == {raw[i].time : i \in {j \in 1..Len(raw) : raw[j].type # "interval"}}

\* C28: the match length is max(time) - min(time) over all interval events
\* of the raw stream, those before second 0 included and the events of other
\* types left out, and the benchmark totals of every slot are computed with
\* this length
C28_MatchLengthIsRawSpan ==
    /\ Ran("preprocess_data") => match_length = RawSpan
    /\ pc = "done" =>
          \A s \in Slots :
              post_process_data[s].benchmarks.Total_gold =
                  (Benchmark(s + 1).gold_per_min * RawSpan) \div 6000

\* a summary was returned for a stream with a snapshot before second 0 and
\* events of other types before the first and after the last snapshot
C28_Witness ==
    /\ pc = "done"
    /\ Min(RawIntervalTimes) < 0
    /\ \E t \in OtherTimes : t < Min(RawIntervalTimes)
    /\ \E t \in OtherTimes : t > Max(RawIntervalTimes)

\* C29: a completion request goes out no sooner than GROQ_DELAY seconds
\* after the previous successful completion; one get_response call makes at
\* most 5 request attempts, each at least the 10-second retry delay after
\* the failure before it, and the failure propagates after the fifth; a
\* failed attempt leaves last_request_time at the last successful completion
C29_GroqPacing ==
    /\ (groq_pc = "requesting" /\ completed_at >= 0) => issued_at >= completed_at + GROQ_DELAY
    /\ tries <= GROQ_TRIES
    /\ groq_pc = "raised" => tries = GROQ_TRIES
    /\ groq_pc = "retry_sleep" => tries < GROQ_TRIES
    /\ (groq_pc = "requesting" /\ failed_at >= 0) => issued_at >= failed_at + GROQ_RETRY_DELAY
    /\ last_request_time = IF completed_at < 0 THEN 0 ELSE completed_at

\* after a successful call, a call has failed five times and raised
C29_Witness ==
    /\ groq_pc = "raised"
    /\ completed_at >= 0
    /\ failed_at > completed_at
    /\ tries = GROQ_TRIES

\* an attempt of _download_folder has failed and its handler has run
AttemptFailed == gcs_pc = "raised" \/ (gcs_pc = "attempt" /\ attempt >= 1)

\* C30: when an attempt of _download_folder has failed and the exception is
\* raised again, no local file written during the failed attempts is left on
\* the disk, also after the third and last attempt
C30_FailedDownloadLeavesNothing ==
    AttemptFailed => \A f \in touched : f \notin DOMAIN disk

====
